---- MODULE Spec2Model ----
(***************************************************************************)
(* A model of the inworld client library (package inworld): the transport  *)
(* core (sendStudioAPIRequest, sendSimpleAPIRequest, sendRequest, limit,   *)
(* combine), the deployment operations and the resource and session        *)
(* operations that call it.  One caller issues calls one after another;    *)
(* the remote service and the HTTP transport are the environment: what     *)
(* c.client.Do returns, what the body read yields and whether closing the  *)
(* body fails are chosen nondeterministically.                             *)
(***************************************************************************)
EXTENDS Integers, Sequences, FiniteSets, TLC

VARIABLES
    pc,        \* where the current call stands: idle, built, do, waiting,
               \* reading, classify, closing, returned
    call,      \* the operation called and its arguments
    req,       \* the *http.Request built for the call
    resp,      \* the *http.Response (status code, body bytes read)
    val,       \* sendRequest's named result `response`
    err,       \* sendRequest's named result `err`
    sends,     \* number of c.client.Do invocations of the current call
    closes,    \* number of resp.Body.Close invocations of the current call
    primary,   \* history: err as it stood when the deferred close started
    closeErr,  \* history: the error resp.Body.Close returned
    client,    \* the Client value: simpleAPIKey, studioAPIKey
    seenDone,  \* history: operation ids for which a check returned done=true
    lastSession, \* history: the session ID given to the previous call
    ctxDone,   \* the context of the current call has been cancelled
    peer,      \* a second goroutine calling the same client: its own pc, call,
               \* req, resp, val, err and close error
    handles,   \* the deployment handles a polling caller holds, oldest first
    failedBefore, \* history: an earlier call returned an error
    urls,      \* the package-level base URLs apiV1 and apiStudioV1
    queried,   \* history: an earlier call put query parameters on its URL
    probe,     \* an *Error value and what its methods returned
    reader,    \* a *jsonReader: its value v and its buffer buf
    reads      \* history: what the Read calls on the reader returned

\* the values the helper functions work on
helpers == <<probe, reader, reads>>

\* what the steps of a call leave alone
outer == <<seenDone, lastSession, peer, handles, failedBefore, helpers>>

\* the locals of the first caller's call
first == <<pc, call, req, resp, val, err, sends, closes, primary, closeErr, ctxDone>>

vars ==
    <<pc, call, req, resp, val, err, sends, closes, primary, closeErr, client,
      ctxDone, urls, queried, outer>>

\* everything but the values the helper functions work on
calls ==
    <<first, client, urls, queried, seenDone, lastSession, peer, handles,
      failedBefore>>

---------------------------------------------------------------------------
(* Bounds of the model *)

\* The number of deployment handles a polling caller holds at most.
MaxHandles == 3

\* Length of the padding of the long response bodies: longer than the
\* snippet limit, so that limit() truncates.
PadLen == 201

\* Cap on c.client.Do invocations per call explored (the code makes one).
MaxSends == 2

---------------------------------------------------------------------------
(* Program constants *)

StatusOK == 200
StatusBadRequest == 400
SnippetLimit == 200
\* google.golang.org/grpc/codes: OK and the first value that is no code
CodeOK == 0
MaxCode == 17

---------------------------------------------------------------------------
(* JSON documents as encoding/json sees them.  A response body is its raw  *)
(* text together with the document the text denotes; `json` is what the    *)
(* decoder's scanner finds in `raw`.                                       *)

\* one JSON value of an object member
Absent == [t |-> "absent", n |-> 0, s |-> "", b |-> FALSE, a |-> <<>>]
JNull == [Absent EXCEPT !.t = "null"]
JNum(n) == [Absent EXCEPT !.t = "num", !.n = n]
JStr(s) == [Absent EXCEPT !.t = "str", !.s = s]
JBool(b) == [Absent EXCEPT !.t = "bool", !.b = b]
JArr(a) == [Absent EXCEPT !.t = "arr", !.a = a]
\* an object {"@type": s}
JObj(s) == [Absent EXCEPT !.t = "obj", !.s = s]

NoFields ==
    [code |-> Absent, message |-> Absent, details |-> Absent, name |-> Absent,
     done |-> Absent, metadata |-> Absent, response |-> Absent]

\* top-level documents: nothing at all, malformed text, null, an array, an object
JEof == [t |-> "eof", f |-> NoFields]
JSyntax == [t |-> "syntax", f |-> NoFields]
JTopNull == [t |-> "null", f |-> NoFields]
JTopArray == [t |-> "array", f |-> NoFields]
JObject(f) == [t |-> "object", f |-> f]

RECURSIVE Rep(_, _)
Rep(s, n) ==
    IF n <= 0 THEN ""
    ELSE IF n % 2 = 0 THEN LET h == Rep(s, n \div 2) IN h \o h
    ELSE s \o Rep(s, n - 1)

OpName == "workspaces/w/scenes/s1/operations/op1"

BodyEmpty == [raw |-> "", json |-> JEof]
BodyGarbage == [raw |-> "<html>Bad Gateway</html>", json |-> JSyntax]
BodyLongGarbage == [raw |-> Rep("x", PadLen), json |-> JSyntax]
BodyLimitGarbage == [raw |-> Rep("y", SnippetLimit), json |-> JSyntax]
BodyNull == [raw |-> "null", json |-> JTopNull]
BodyArray == [raw |-> "[]", json |-> JTopArray]
BodyEmptyObject == [raw |-> "{}", json |-> JObject(NoFields)]
BodyInvalidArgument ==
    [raw |-> "{\"code\":3,\"message\":\"invalid argument\",\"details\":[]}",
     json |-> JObject([NoFields EXCEPT !.code = JNum(3),
                          !.message = JStr("invalid argument"),
                          !.details = JArr(<<>>)])]
BodyNotFound ==
    [raw |-> "{\"code\":\"NOT_FOUND\",\"message\":\"no scene\",\"details\":[\"d1\",\"d2\"]}"
                \o Rep(" ", PadLen),
     json |-> JObject([NoFields EXCEPT !.code = JStr("NOT_FOUND"),
                          !.message = JStr("no scene"),
                          !.details = JArr(<<"d1", "d2">>)])]
BodyCodeOK ==
    [raw |-> "{\"code\":0,\"message\":\"fine\"}",
     json |-> JObject([NoFields EXCEPT !.code = JNum(0), !.message = JStr("fine")])]
BodyCodeOutOfRange ==
    [raw |-> "{\"code\":17,\"message\":\"seventeen\"}",
     json |-> JObject([NoFields EXCEPT !.code = JNum(17), !.message = JStr("seventeen")])]
BodyBadMessage ==
    [raw |-> "{\"code\":3,\"message\":5}",
     json |-> JObject([NoFields EXCEPT !.code = JNum(3), !.message = JNum(5)])]
BodyPending ==
    [raw |-> "{\"name\":\"workspaces/w/scenes/s1/operations/op1\",\"metadata\":{\"@type\":\"m\"},\"done\":false}",
     json |-> JObject([NoFields EXCEPT !.name = JStr(OpName),
                          !.metadata = JObj("m"), !.done = JBool(FALSE)])]
BodyDone ==
    [raw |-> "{\"name\":\"workspaces/w/scenes/s1/operations/op1\",\"metadata\":{\"@type\":\"m\"},\"done\":true,\"response\":{\"@type\":\"r\"}}",
     json |-> JObject([NoFields EXCEPT !.name = JStr(OpName),
                          !.metadata = JObj("m"), !.done = JBool(TRUE),
                          !.response = JObj("r")])]
\* a first JSON value followed by other bytes: Decode reads the first value only
BodyDoneTrailing ==
    [raw |-> "{\"name\":\"workspaces/w/scenes/s1/operations/op1\",\"done\":true}</html>",
     json |-> JObject([NoFields EXCEPT !.name = JStr(OpName), !.done = JBool(TRUE)])]
BodyDoneBadName ==
    [raw |-> "{\"name\":7,\"done\":true}",
     json |-> JObject([NoFields EXCEPT !.name = JNum(7), !.done = JBool(TRUE)])]

Bodies ==
    {BodyEmpty, BodyGarbage, BodyLongGarbage, BodyLimitGarbage, BodyNull,
     BodyArray, BodyEmptyObject, BodyInvalidArgument, BodyNotFound, BodyCodeOK,
     BodyCodeOutOfRange, BodyBadMessage, BodyPending, BodyDone, BodyDoneTrailing,
     BodyDoneBadName}

\* the body of a response of which nothing has been read (yet)
NoBodyRead == [raw |-> "", json |-> [t |-> "unread", f |-> NoFields]]

\* status codes a response may carry (the http.Client and its RoundTripper
\* are the caller's): both edges of [200, 400) and beyond
Statuses == {101, StatusOK - 1, StatusOK, 304, StatusBadRequest - 1,
             StatusBadRequest, 404, 500}

---------------------------------------------------------------------------
(* Values and errors *)

\* A success value, seen through the fields the deployment handles have.
\* Resource and session types (Scene, Character, Session, ...) are seen
\* through their `name` field; list responses and struct{} have none.
ZeroVal == [name |-> "", done |-> FALSE, metadata |-> "", response |-> ""]

TypeFields(T) ==
    CASE T = "inworld.CheckDeploymentStatusResponse" -> {"name", "metadata", "done", "response"}
      [] T = "inworld.DeploymentResponse" -> {"name", "metadata", "done"}
      [] T \in {"inworld.Scene", "inworld.Character", "inworld.CommonKnowledge",
                "inworld.Session", "inworld.Interaction"} -> {"name"}
      [] OTHER -> {}

\* An error is the sequence of the failures it carries: nil is the empty
\* sequence, a single failure has one, stderrors.Join concatenates.
Nil == <<>>

NoErr ==
    [kind |-> "", msg |-> "", status |-> 0, snippet |-> "", type |-> "",
     code |-> 0, message |-> "", details |-> <<>>]

InputError(msg) == <<[NoErr EXCEPT !.kind = "input", !.msg = msg]>>
RequestError == <<[NoErr EXCEPT !.kind = "request", !.msg = "net/http: nil Context"]>>
TransportError == <<[NoErr EXCEPT !.kind = "transport", !.msg = "transport"]>>
ReadError == <<[NoErr EXCEPT !.kind = "read", !.msg = "reading http body"]>>
CloseError == <<[NoErr EXCEPT !.kind = "close", !.msg = "close"]>>

\* errors.Errorf("request failed with status %d: %s", resp.StatusCode, limit(b, 200))
GenericError(status, snippet) ==
    <<[NoErr EXCEPT !.kind = "generic",
          !.msg = "request failed with status " \o ToString(status) \o ": " \o snippet,
          !.status = status, !.snippet = snippet]>>

\* errors.WithStack(&e)
StructuredError(e) ==
    <<[NoErr EXCEPT !.kind = "structured", !.msg = e.Message, !.code = e.Code,
          !.message = e.Message, !.details = e.Details]>>

\* errors.Wrapf(err, "json unmarshaling to %T: %s", response, limit(b, 200))
DecodeError(T, snippet) ==
    <<[NoErr EXCEPT !.kind = "decode",
          !.msg = "json unmarshaling to " \o T \o ": " \o snippet,
          !.type = T, !.snippet = snippet]>>

Kinds(e) == {e[i].kind : i \in DOMAIN e}

LimitOffByOne(v, n) == IF Len(v) >= n THEN SubSeq(v, 1, n - 1) ELSE v

\* func limit(v []byte, limit int) []byte
limit(v, n) == IF Len(v) > n THEN SubSeq(v, 1, n) ELSE v

CombineDropSecond(err1, err2) == IF err1 = Nil THEN err2 ELSE err1

CombineCloseErrorWins(err1, err2) == IF err2 = Nil THEN err1 ELSE err2

\* func combine(err1, err2 error) error
combine(err1, err2) ==
    IF err1 = Nil THEN err2
    ELSE IF err2 = Nil THEN err1
    ELSE err1 \o err2

---------------------------------------------------------------------------
(* Decoding, as json.Decoder.Decode does it *)

\* codes.Code.UnmarshalJSON: null is a no-op, an unsigned integer below
\* MaxCode is that code, a quoted code name is its code, all else fails.
CodeOf(v) ==
    CASE v.t \in {"absent", "null"} -> [ok |-> TRUE, c |-> CodeOK]
      [] v.t = "num" /\ v.n >= 0 /\ v.n < MaxCode -> [ok |-> TRUE, c |-> v.n]
      [] v.t = "str" /\ v.s = "NOT_FOUND" -> [ok |-> TRUE, c |-> 5]
      [] OTHER -> [ok |-> FALSE, c |-> CodeOK]

ZeroError == [Code |-> CodeOK, Message |-> "", Details |-> <<>>]

\* rdr.Decode(&e) for e of type Error: [failed, e]
DecodeEnvelope(j) ==
    IF j.t \in {"eof", "syntax", "array"} THEN [failed |-> TRUE, e |-> ZeroError]
    ELSE IF j.t = "null" THEN [failed |-> FALSE, e |-> ZeroError]
    ELSE LET c == CodeOf(j.f.code)
             m == j.f.message
             d == j.f.details
         IN [failed |-> ~c.ok \/ m.t \notin {"absent", "null", "str"}
                              \/ d.t \notin {"absent", "null", "arr"},
             e |-> [Code |-> c.c,
                    Message |-> IF m.t = "str" THEN m.s ELSE "",
                    Details |-> IF d.t = "arr" THEN d.a ELSE <<>>]]

DecodeValueDoneIfPresent(T, j) ==
    IF j.t \in {"eof", "syntax", "array"} THEN [failed |-> TRUE, v |-> ZeroVal]
    ELSE IF j.t = "null" THEN [failed |-> FALSE, v |-> ZeroVal]
    ELSE LET has(k) == k \in TypeFields(T)
         IN [failed |-> \/ has("name") /\ j.f.name.t \notin {"absent", "null", "str"}
                        \/ has("done") /\ j.f.done.t \notin {"absent", "null", "bool"}
                        \/ has("metadata") /\ j.f.metadata.t \notin {"absent", "null", "obj"}
                        \/ has("response") /\ j.f.response.t \notin {"absent", "null", "obj"},
             v |-> [name |-> IF has("name") /\ j.f.name.t = "str" THEN j.f.name.s ELSE "",
                    done |-> has("done") /\ j.f.done.t = "bool",
                    metadata |-> IF has("metadata") /\ j.f.metadata.t = "obj"
                                 THEN j.f.metadata.s ELSE "",
                    response |-> IF has("response") /\ j.f.response.t = "obj"
                                 THEN j.f.response.s ELSE ""]]

DecodeValueDropDone(T, j) ==
    IF j.t \in {"eof", "syntax", "array"} THEN [failed |-> TRUE, v |-> ZeroVal]
    ELSE IF j.t = "null" THEN [failed |-> FALSE, v |-> ZeroVal]
    ELSE LET has(k) == k \in TypeFields(T)
         IN [failed |-> \/ has("name") /\ j.f.name.t \notin {"absent", "null", "str"}
                        \/ has("metadata") /\ j.f.metadata.t \notin {"absent", "null", "obj"}
                        \/ has("response") /\ j.f.response.t \notin {"absent", "null", "obj"},
             v |-> [name |-> IF has("name") /\ j.f.name.t = "str" THEN j.f.name.s ELSE "",
                    done |-> FALSE,
                    metadata |-> IF has("metadata") /\ j.f.metadata.t = "obj"
                                 THEN j.f.metadata.s ELSE "",
                    response |-> IF has("response") /\ j.f.response.t = "obj"
                                 THEN j.f.response.s ELSE ""]]

DecodeValueRemembering(T, j) ==
    IF j.t \in {"eof", "syntax", "array"} THEN [failed |-> TRUE, v |-> ZeroVal]
    ELSE IF j.t = "null" THEN [failed |-> FALSE, v |-> ZeroVal]
    ELSE LET has(k) == k \in TypeFields(T)
         IN [failed |-> \/ has("name") /\ j.f.name.t \notin {"absent", "null", "str"}
                        \/ has("done") /\ j.f.done.t \notin {"absent", "null", "bool"}
                        \/ has("metadata") /\ j.f.metadata.t \notin {"absent", "null", "obj"}
                        \/ has("response") /\ j.f.response.t \notin {"absent", "null", "obj"},
             v |-> [name |-> IF has("name") /\ j.f.name.t = "str" THEN j.f.name.s ELSE "",
                    done |-> \/ has("done") /\ j.f.done.t = "bool" /\ j.f.done.b
                             \/ has("done") /\ seenDone # {},
                    metadata |-> IF has("metadata") /\ j.f.metadata.t = "obj"
                                 THEN j.f.metadata.s ELSE "",
                    response |-> IF has("response") /\ j.f.response.t = "obj"
                                 THEN j.f.response.s ELSE ""]]

\* rdr.Decode(&response) for response of type T: [failed, v].  A member of
\* the wrong JSON type is an UnmarshalTypeError: the decoder records it and
\* goes on, so the other members are still stored (v is partly filled).
DecodeValue(T, j) ==
    IF j.t \in {"eof", "syntax", "array"} THEN [failed |-> TRUE, v |-> ZeroVal]
    ELSE IF j.t = "null" THEN [failed |-> FALSE, v |-> ZeroVal]
    ELSE LET has(k) == k \in TypeFields(T)
         IN [failed |-> \/ has("name") /\ j.f.name.t \notin {"absent", "null", "str"}
                        \/ has("done") /\ j.f.done.t \notin {"absent", "null", "bool"}
                        \/ has("metadata") /\ j.f.metadata.t \notin {"absent", "null", "obj"}
                        \/ has("response") /\ j.f.response.t \notin {"absent", "null", "obj"},
             v |-> [name |-> IF has("name") /\ j.f.name.t = "str" THEN j.f.name.s ELSE "",
                    done |-> has("done") /\ j.f.done.t = "bool" /\ j.f.done.b,
                    metadata |-> IF has("metadata") /\ j.f.metadata.t = "obj"
                                 THEN j.f.metadata.s ELSE "",
                    response |-> IF has("response") /\ j.f.response.t = "obj"
                                 THEN j.f.response.s ELSE ""]]

---------------------------------------------------------------------------
(* Requests *)

apiV1 == "https://api.inworld.ai/v1"
apiStudioV1 == "https://api.inworld.ai/studio/v1"

\* (*url.URL).JoinPath: the elements joined by "/", empty elements dropped
RECURSIVE JoinPath(_, _)
JoinPath(u, elems) ==
    IF elems = <<>> THEN u
    ELSE JoinPath(IF Head(elems) = "" THEN u ELSE u \o "/" \o Head(elems), Tail(elems))

\* the package-level URL an operation starts from: the simple family builds
\* on apiV1, the studio family on apiStudioV1
BaseOf(op) ==
    IF op \in {"SimpleSendText", "OpenSession", "SendText", "SendTrigger"}
    THEN "apiV1" ELSE "apiStudioV1"

ReceiverInPlace(base, u) == u

\* url := apiStudioV1.JoinPath(...) gives the call a URL of its own, and
\* url.RawQuery is assigned on that URL: the receiver keeps its value
Receiver(base, u) == base

RECURSIVE EncodeKeys(_, _)
EncodeKeys(q, keys) ==
    IF keys = <<>> THEN ""
    ELSE LET here == {p \in q : p[1] = Head(keys)}
             rest == EncodeKeys(q, Tail(keys))
         IN IF here = {} THEN rest
            ELSE Head(keys) \o "=" \o (CHOOSE p \in here : TRUE)[2]
                 \o (IF rest = "" THEN "" ELSE "&" \o rest)

\* url.Values.Encode: "k=v" joined with "&", sorted by key; the keys are
\* those the operations add
Encode(q) == EncodeKeys(q, <<"filter", "pageSize", "pageToken", "view">>)

\* (*URL).String with RawQuery set to rawQuery
String(u, rawQuery) == IF rawQuery = "" THEN u ELSE u \o "?" \o rawQuery

\* the query of a list request: q.Add for each criterion that is given
ListQuery(lreq) ==
    (IF lreq.view # "" THEN {<<"view", lreq.view>>} ELSE {})
    \cup (IF lreq.filter # "" THEN {<<"filter", lreq.filter>>} ELSE {})
    \cup (IF lreq.pageSize > 0 THEN {<<"pageSize", ToString(lreq.pageSize)>>} ELSE {})
    \cup (IF lreq.pageToken # "" THEN {<<"pageToken", lreq.pageToken>>} ELSE {})

NoReq == [method |-> "", url |-> "", headers |-> {}, body |-> ""]
NoResp == [received |-> FALSE, status |-> 0, body |-> NoBodyRead]
NoCall ==
    [op |-> "", T |-> "", ctx |-> "", id |-> "", session |-> "", text |-> "",
     trigger |-> "", params |-> <<>>, query |-> {}]

\* http.NewRequestWithContext(ctx, method, url, body); body is "" for
\* http.NoBody and "json" for newReader(v)
NewRequest(method, url, body) ==
    [method |-> method, url |-> url, headers |-> {}, body |-> body]

\* http.Header.Set
SetHeader(h, k, v) == {x \in h : x[1] # k} \cup {<<k, v>>}

StudioHeadersUnmarked(c, r) ==
    [r EXCEPT !.headers = SetHeader(@, "Authorization", "Basic " \o c.studioAPIKey)]

\* sendStudioAPIRequest: the headers it sets
StudioHeaders(c, r) ==
    [r EXCEPT !.headers =
        SetHeader(SetHeader(@, "Authorization", "Basic " \o c.studioAPIKey),
                  "Grpc-Metadata-X-Authorization-Bearer-Type", "studio_api")]

SimpleHeadersWithStudioKey(c, r, sessionID) ==
    [r EXCEPT !.headers =
        LET h == SetHeader(@, "Authorization", "Basic " \o c.studioAPIKey)
        IN IF sessionID # "" THEN SetHeader(h, "Grpc-Metadata-Session-Id", sessionID)
           ELSE h]

SimpleHeadersStickySession(c, r, sessionID) ==
    [r EXCEPT !.headers =
        LET h == SetHeader(@, "Authorization", "Basic " \o c.simpleAPIKey)
            sid == IF sessionID # "" THEN sessionID ELSE lastSession
        IN IF sid # "" THEN SetHeader(h, "Grpc-Metadata-Session-Id", sid) ELSE h]

SimpleHeadersShared(c, r, sessionID) ==
    [r EXCEPT !.headers =
        LET h == SetHeader(@, "Authorization", "Basic " \o c.simpleAPIKey)
            sid == IF sessionID # "" THEN sessionID ELSE call.session
        IN IF sid # "" THEN SetHeader(h, "Grpc-Metadata-Session-Id", sid) ELSE h]

\* sendSimpleAPIRequest: the headers it sets
SimpleHeaders(c, r, sessionID) ==
    [r EXCEPT !.headers =
        LET h == SetHeader(@, "Authorization", "Basic " \o c.simpleAPIKey)
        IN IF sessionID # "" THEN SetHeader(h, "Grpc-Metadata-Session-Id", sessionID)
           ELSE h]

---------------------------------------------------------------------------
(* Inputs *)

Contexts == {"background", "nil"}
WorkspaceIDs == {"", "w"}
SceneIDs == {"", "workspaces/w/scenes/s1"}
CharacterNames == {"", "workspaces/w/characters/c1"}
CommonKnowledgeIDs == {"", "workspaces/w/common-knowledge/k1"}
OperationIDs == {"", OpName}
SessionIDs == {"", "sess1", "sess2"}
SessionCharacters == {"", "workspaces/w/sessions/sess1/sessionCharacters/sc1"}
Texts == {"", "hello"}
Triggers == {"", "workspaces/w/triggers/t1"}
ParameterLists ==
    {<<>>,
     <<[Name |-> "k", Value |-> "v"]>>,
     <<[Name |-> "", Value |-> "v"]>>,
     <<[Name |-> "k", Value |-> ""]>>,
     <<[Name |-> "k", Value |-> "v"], [Name |-> "", Value |-> ""]>>,
     <<[Name |-> "k", Value |-> ""], [Name |-> "", Value |-> "v"]>>}

\* SceneItemView and CharacterItemView: "" is the argument left unset
SceneItemViews == {"", "SCENE_ITEM_VIEW_WITH_META"}
CharacterItemViews == {"", "CHARACTER_ITEM_VIEW_WITH_META"}

\* GetScenesRequest and ListCommonKnowledgeRequest without the workspace:
\* they have no view, which the model writes as view ""
ListRequests ==
    {[filter |-> "", pageSize |-> 0, pageToken |-> "", view |-> ""],
     [filter |-> "", pageSize |-> 20, pageToken |-> "", view |-> ""],
     [filter |-> "f1", pageSize |-> 20, pageToken |-> "tok", view |-> ""]}

\* GetCharactersRequest without the workspace
CharacterListRequests ==
    {[filter |-> "", pageSize |-> 0, pageToken |-> "", view |-> ""],
     [filter |-> "f1", pageSize |-> 20, pageToken |-> "tok",
      view |-> "CHARACTER_ITEM_VIEW_WITH_META"]}

---------------------------------------------------------------------------
(* The operations.  Each validates its arguments, builds the request       *)
(* (pc = "built") and hands it to sendStudioAPIRequest or                   *)
(* sendSimpleAPIRequest, which sets the headers of its API family and      *)
(* hands over to sendRequest (pc = "do").                                   *)

\* an early return before any request is sent: return T{}, err
Reject(c, e) ==
    /\ call' = c
    /\ err' = e
    /\ pc' = "returned"
    /\ UNCHANGED <<client, urls, queried, req, resp, val, sends, closes, primary, closeErr, ctxDone, outer>>

\* return sendStudioAPIRequest[T](c, r) / sendSimpleAPIRequest[T](c, r, id)
Issue(c, r) ==
    /\ call' = c
    /\ req' = r
    /\ pc' = "built"
    /\ urls' = [urls EXCEPT ![BaseOf(c.op)] = Receiver(@, r.url)]
    /\ UNCHANGED <<client, queried, resp, val, err, sends, closes, primary, closeErr, ctxDone, outer>>

CreateScene(ctx, workspaceID) ==
    /\ pc = "idle"
    /\ LET c == [NoCall EXCEPT !.op = "CreateScene", !.T = "inworld.Scene", !.ctx = ctx, !.id = workspaceID]
           r == NewRequest("POST", JoinPath(urls.apiStudioV1, <<"workspaces", workspaceID, "scenes">>), "json")
       IN IF workspaceID = "" THEN Reject(c, InputError("workspace id is required"))
          ELSE IF ctx = "nil" THEN Reject(c, RequestError)
          ELSE Issue(c, r)

GetScene(ctx, sceneID, view) ==
    /\ pc = "idle"
    /\ LET q == (IF view # "" THEN {<<"view", view>>} ELSE {})
           c == [NoCall EXCEPT !.op = "GetScene", !.T = "inworld.Scene", !.ctx = ctx, !.id = sceneID, !.query = q]
           r == NewRequest("GET", String(JoinPath(urls.apiStudioV1, <<sceneID>>), Encode(q)), "")
       IN IF sceneID = "" THEN Reject(c, InputError("scene id is required"))
          ELSE IF ctx = "nil" THEN Reject(c, RequestError)
          ELSE Issue(c, r)

DeploySceneNoSuffix(ctx, sceneID) ==
    /\ pc = "idle"
    /\ LET c == [NoCall EXCEPT !.op = "DeployScene", !.T = "inworld.DeploymentResponse", !.ctx = ctx, !.id = sceneID]
           r == NewRequest("POST", JoinPath(urls.apiStudioV1, <<sceneID>>), "")
       IN IF sceneID = "" THEN Reject(c, InputError("scene id is required"))
          ELSE IF ctx = "nil" THEN Reject(c, RequestError)
          ELSE Issue(c, r)

DeployScene(ctx, sceneID) ==
    /\ pc = "idle"
    /\ LET c == [NoCall EXCEPT !.op = "DeployScene", !.T = "inworld.DeploymentResponse", !.ctx = ctx, !.id = sceneID]
           r == NewRequest("POST", JoinPath(urls.apiStudioV1, <<sceneID \o ":deploy">>), "")
       IN IF sceneID = "" THEN Reject(c, InputError("scene id is required"))
          ELSE IF ctx = "nil" THEN Reject(c, RequestError)
          ELSE Issue(c, r)

GetScenes(ctx, workspaceID, lreq) ==
    /\ pc = "idle"
    /\ LET q == ListQuery(lreq)
           c == [NoCall EXCEPT !.op = "GetScenes", !.T = "inworld.GetScenesResponse", !.ctx = ctx, !.id = workspaceID, !.query = q]
           r == NewRequest("GET", String(JoinPath(urls.apiStudioV1, <<"workspaces", workspaceID, "scenes">>), Encode(q)), "")
       IN IF workspaceID = "" THEN Reject(c, InputError("workspace id is required"))
          ELSE IF ctx = "nil" THEN Reject(c, RequestError)
          ELSE Issue(c, r)

UpdateScene(ctx, sceneID) ==
    /\ pc = "idle"
    /\ LET c == [NoCall EXCEPT !.op = "UpdateScene", !.T = "inworld.Scene", !.ctx = ctx, !.id = sceneID]
           r == NewRequest("PATCH", JoinPath(urls.apiStudioV1, <<sceneID>>), "json")
       IN IF sceneID = "" THEN Reject(c, InputError("scene id is required"))
          ELSE IF ctx = "nil" THEN Reject(c, RequestError)
          ELSE Issue(c, r)

DeleteScene(ctx, sceneID) ==
    /\ pc = "idle"
    /\ LET c == [NoCall EXCEPT !.op = "DeleteScene", !.T = "struct {}", !.ctx = ctx, !.id = sceneID]
           r == NewRequest("DELETE", JoinPath(urls.apiStudioV1, <<sceneID>>), "")
       IN IF sceneID = "" THEN Reject(c, InputError("scene id is required"))
          ELSE IF ctx = "nil" THEN Reject(c, RequestError)
          ELSE Issue(c, r)

CreateCharacter(ctx, workspaceID) ==
    /\ pc = "idle"
    /\ LET c == [NoCall EXCEPT !.op = "CreateCharacter", !.T = "inworld.Character", !.ctx = ctx, !.id = workspaceID]
           r == NewRequest("POST", JoinPath(urls.apiStudioV1, <<"workspaces", workspaceID, "characters">>), "json")
       IN IF workspaceID = "" THEN Reject(c, InputError("workspace id is required"))
          ELSE IF ctx = "nil" THEN Reject(c, RequestError)
          ELSE Issue(c, r)

GetCharacter(ctx, characterName, view) ==
    /\ pc = "idle"
    /\ LET q == (IF view # "" THEN {<<"view", view>>} ELSE {})
           c == [NoCall EXCEPT !.op = "GetCharacter", !.T = "inworld.Character", !.ctx = ctx, !.id = characterName, !.query = q]
           r == NewRequest("GET", String(JoinPath(urls.apiStudioV1, <<characterName>>), Encode(q)), "")
       IN IF characterName = "" THEN Reject(c, InputError("character name is required"))
          ELSE IF ctx = "nil" THEN Reject(c, RequestError)
          ELSE Issue(c, r)

DeployCharacter(ctx, characterName) ==
    /\ pc = "idle"
    /\ LET c == [NoCall EXCEPT !.op = "DeployCharacter", !.T = "inworld.DeploymentResponse", !.ctx = ctx, !.id = characterName]
           r == NewRequest("POST", JoinPath(urls.apiStudioV1, <<characterName \o ":deploy">>), "")
       IN IF characterName = "" THEN Reject(c, InputError("character name is required"))
          ELSE IF ctx = "nil" THEN Reject(c, RequestError)
          ELSE Issue(c, r)

GetCharacters(ctx, workspaceID, lreq) ==
    /\ pc = "idle"
    /\ LET q == ListQuery(lreq)
           c == [NoCall EXCEPT !.op = "GetCharacters", !.T = "inworld.GetCharactersResponse", !.ctx = ctx, !.id = workspaceID, !.query = q]
           r == NewRequest("GET", String(JoinPath(urls.apiStudioV1, <<"workspaces", workspaceID, "characters">>), Encode(q)), "")
       IN IF ctx = "nil" THEN Reject(c, RequestError)
          ELSE Issue(c, r)

UpdateCharacter(ctx, characterName) ==
    /\ pc = "idle"
    /\ LET c == [NoCall EXCEPT !.op = "UpdateCharacter", !.T = "inworld.Character", !.ctx = ctx, !.id = characterName]
           r == NewRequest("PATCH", JoinPath(urls.apiStudioV1, <<characterName>>), "json")
       IN IF characterName = "" THEN Reject(c, InputError("character name cannot be empty"))
          ELSE IF ctx = "nil" THEN Reject(c, RequestError)
          ELSE Issue(c, r)

DeleteCharacter(ctx, characterName) ==
    /\ pc = "idle"
    /\ LET c == [NoCall EXCEPT !.op = "DeleteCharacter", !.T = "struct {}", !.ctx = ctx, !.id = characterName]
           r == NewRequest("DELETE", JoinPath(urls.apiStudioV1, <<characterName>>), "")
       IN IF characterName = "" THEN Reject(c, InputError("character name cannot be empty"))
          ELSE IF ctx = "nil" THEN Reject(c, RequestError)
          ELSE Issue(c, r)

CreateCommonKnowledge(ctx, workspaceID) ==
    /\ pc = "idle"
    /\ LET c == [NoCall EXCEPT !.op = "CreateCommonKnowledge", !.T = "inworld.CommonKnowledge", !.ctx = ctx, !.id = workspaceID]
           r == NewRequest("POST", JoinPath(urls.apiStudioV1, <<"workspaces", workspaceID, "common-knowledge">>), "json")
       IN IF workspaceID = "" THEN Reject(c, InputError("workspace id is required"))
          ELSE IF ctx = "nil" THEN Reject(c, RequestError)
          ELSE Issue(c, r)

GetCommonKnowledge(ctx, commonKnowledgeID) ==
    /\ pc = "idle"
    /\ LET c == [NoCall EXCEPT !.op = "GetCommonKnowledge", !.T = "inworld.CommonKnowledge", !.ctx = ctx, !.id = commonKnowledgeID]
           r == NewRequest("GET", JoinPath(urls.apiStudioV1, <<commonKnowledgeID>>), "")
       IN IF commonKnowledgeID = "" THEN Reject(c, InputError("common knowledge id is required"))
          ELSE IF ctx = "nil" THEN Reject(c, RequestError)
          ELSE Issue(c, r)

DeployCommonKnowledge(ctx, commonKnowledgeID) ==
    /\ pc = "idle"
    /\ LET c == [NoCall EXCEPT !.op = "DeployCommonKnowledge", !.T = "inworld.DeploymentResponse", !.ctx = ctx, !.id = commonKnowledgeID]
           r == NewRequest("POST", JoinPath(urls.apiStudioV1, <<commonKnowledgeID \o ":deploy">>), "")
       IN IF commonKnowledgeID = "" THEN Reject(c, InputError("common knowledge id is required"))
          ELSE IF ctx = "nil" THEN Reject(c, RequestError)
          ELSE Issue(c, r)

ListCommonKnowledge(ctx, workspaceID, lreq) ==
    /\ pc = "idle"
    /\ LET q == ListQuery(lreq)
           c == [NoCall EXCEPT !.op = "ListCommonKnowledge", !.T = "inworld.ListCommonKnowledgeResponse", !.ctx = ctx, !.id = workspaceID, !.query = q]
           r == NewRequest("GET", String(JoinPath(urls.apiStudioV1, <<"workspaces", workspaceID, "common-knowledge">>), Encode(q)), "")
       IN IF workspaceID = "" THEN Reject(c, InputError("workspace id is required"))
          ELSE IF ctx = "nil" THEN Reject(c, RequestError)
          ELSE Issue(c, r)

UpdateCommonKnowledge(ctx, commonKnowledgeID) ==
    /\ pc = "idle"
    /\ LET c == [NoCall EXCEPT !.op = "UpdateCommonKnowledge", !.T = "inworld.CommonKnowledge", !.ctx = ctx, !.id = commonKnowledgeID]
           r == NewRequest("PATCH", JoinPath(urls.apiStudioV1, <<commonKnowledgeID>>), "json")
       IN IF commonKnowledgeID = "" THEN Reject(c, InputError("common knowledge id is required"))
          ELSE IF ctx = "nil" THEN Reject(c, RequestError)
          ELSE Issue(c, r)

DeleteCommonKnowledge(ctx, commonKnowledgeID) ==
    /\ pc = "idle"
    /\ LET c == [NoCall EXCEPT !.op = "DeleteCommonKnowledge", !.T = "struct {}", !.ctx = ctx, !.id = commonKnowledgeID]
           r == NewRequest("DELETE", JoinPath(urls.apiStudioV1, <<commonKnowledgeID>>), "")
       IN IF commonKnowledgeID = "" THEN Reject(c, InputError("common knowledge id is required"))
          ELSE IF ctx = "nil" THEN Reject(c, RequestError)
          ELSE Issue(c, r)

CheckDeploymentStatusByPost(ctx, operationID) ==
    /\ pc = "idle"
    /\ LET c == [NoCall EXCEPT !.op = "CheckDeploymentStatus", !.T = "inworld.CheckDeploymentStatusResponse", !.ctx = ctx, !.id = operationID]
           r == NewRequest("POST", JoinPath(urls.apiStudioV1, <<operationID>>), "json")
       IN IF operationID = "" THEN Reject(c, InputError("operation id cannot be empty"))
          ELSE IF ctx = "nil" THEN Reject(c, RequestError)
          ELSE Issue(c, r)

CheckDeploymentStatus(ctx, operationID) ==
    /\ pc = "idle"
    /\ LET c == [NoCall EXCEPT !.op = "CheckDeploymentStatus", !.T = "inworld.CheckDeploymentStatusResponse", !.ctx = ctx, !.id = operationID]
           r == NewRequest("GET", JoinPath(urls.apiStudioV1, <<operationID>>), "")
       IN IF operationID = "" THEN Reject(c, InputError("operation id cannot be empty"))
          ELSE IF ctx = "nil" THEN Reject(c, RequestError)
          ELSE Issue(c, r)

SimpleSendText(ctx, character, text, sessionID) ==
    /\ pc = "idle"
    /\ LET c == [NoCall EXCEPT !.op = "SimpleSendText", !.T = "inworld.Interaction",
                    !.ctx = ctx, !.id = character, !.text = text, !.session = sessionID]
           r == NewRequest("POST", JoinPath(urls.apiV1, <<character \o ":simpleSendText">>), "json")
       IN IF character = "" THEN Reject(c, InputError("character is required"))
          ELSE IF text = "" THEN Reject(c, InputError("text is required"))
          ELSE IF ctx = "nil" THEN Reject(c, RequestError)
          ELSE Issue(c, r)

OpenSession(ctx, name) ==
    /\ pc = "idle"
    /\ LET c == [NoCall EXCEPT !.op = "OpenSession", !.T = "inworld.Session",
                    !.ctx = ctx, !.id = name]
           r == NewRequest("POST", JoinPath(urls.apiV1, <<name \o ":openSession">>), "json")
       IN IF name = "" THEN Reject(c, InputError("name is required"))
          ELSE IF ctx = "nil" THEN Reject(c, RequestError)
          ELSE Issue(c, r)

SendText(ctx, sessionID, sessionCharacter, text) ==
    /\ pc = "idle"
    /\ LET c == [NoCall EXCEPT !.op = "SendText", !.T = "inworld.Interaction",
                    !.ctx = ctx, !.id = sessionCharacter, !.text = text,
                    !.session = sessionID]
           r == NewRequest("POST", JoinPath(urls.apiV1, <<sessionCharacter \o ":sendText">>), "json")
       IN IF sessionID = "" THEN Reject(c, InputError("session id is required"))
          ELSE IF sessionCharacter = "" THEN Reject(c, InputError("session character is required"))
          ELSE IF text = "" THEN Reject(c, InputError("text is required"))
          ELSE IF ctx = "nil" THEN Reject(c, RequestError)
          ELSE Issue(c, r)

RECURSIVE CheckParametersValueFirst(_)
CheckParametersValueFirst(ps) ==
    IF ps = <<>> THEN Nil
    ELSE IF Head(ps).Value = "" THEN InputError("parameter value is required")
    ELSE IF Head(ps).Name = "" THEN InputError("parameter name is required")
    ELSE CheckParametersValueFirst(Tail(ps))

\* the loop over req.TriggerEvent.Parameters: the first failing check, or Nil
RECURSIVE CheckParameters(_)
CheckParameters(ps) ==
    IF ps = <<>> THEN Nil
    ELSE IF Head(ps).Name = "" THEN InputError("parameter name is required")
    ELSE IF Head(ps).Value = "" THEN InputError("parameter value is required")
    ELSE CheckParameters(Tail(ps))

SendTrigger(ctx, sessionID, sessionCharacter, trigger, params) ==
    /\ pc = "idle"
    /\ LET c == [NoCall EXCEPT !.op = "SendTrigger", !.T = "inworld.Interaction",
                    !.ctx = ctx, !.id = sessionCharacter, !.trigger = trigger,
                    !.params = params, !.session = sessionID]
           r == NewRequest("POST", JoinPath(urls.apiV1, <<sessionCharacter \o ":sendTrigger">>), "json")
       IN IF sessionID = "" THEN Reject(c, InputError("session id is required"))
          ELSE IF sessionCharacter = "" THEN Reject(c, InputError("session character is required"))
          ELSE IF trigger = "" THEN Reject(c, InputError("trigger is required"))
          ELSE IF CheckParameters(params) # Nil THEN Reject(c, CheckParameters(params))
          ELSE IF ctx = "nil" THEN Reject(c, RequestError)
          ELSE Issue(c, r)

---------------------------------------------------------------------------
(* sendRequest, step by step *)

IsFailureStatusLenient(status) == status < StatusOK \/ status > StatusBadRequest

\* resp.StatusCode < http.StatusOK || resp.StatusCode >= http.StatusBadRequest
IsFailureStatus(status) == status < StatusOK \/ status >= StatusBadRequest

FailureOfDroppingDetails(status, b) ==
    LET d == DecodeEnvelope(b.json)
    IN IF d.failed \/ d.e.Code = CodeOK
       THEN GenericError(status, limit(b.raw, SnippetLimit))
       ELSE StructuredError([d.e EXCEPT !.Details = <<>>])

\* the failure branch: the error for a failure status and body b
FailureOf(status, b) ==
    LET d == DecodeEnvelope(b.json)
    IN IF d.failed \/ d.e.Code = CodeOK
       THEN GenericError(status, limit(b.raw, SnippetLimit))
       ELSE StructuredError(d.e)

SuccessOfSilent(T, b) ==
    LET d == DecodeValue(T, b.json)
    IN [val |-> d.v, err |-> Nil]

\* the success branch: result and error for body b decoded as type T
SuccessOf(T, b) ==
    LET d == DecodeValue(T, b.json)
    IN IF d.failed
       THEN [val |-> d.v, err |-> DecodeError(T, limit(b.raw, SnippetLimit))]
       ELSE [val |-> d.v, err |-> Nil]

\* what follows once the body has been read: lines 112-130
Outcome(T, status, b) ==
    IF IsFailureStatus(status)
    THEN [val |-> ZeroVal, err |-> FailureOf(status, b)]
    ELSE SuccessOf(T, b)

RetryOnTransportError == "do"

\* if err != nil { return response, errors.WithStack(err) }
AfterTransportError == "returned"

ReturnOnReadError == "returned"

\* if err != nil { return response, errors.Wrap(err, "reading http body") }:
\* the deferred close is registered before the read, so it still runs
AfterReadError == "closing"

\* func sendStudioAPIRequest: sets the studio headers on the request the
\* operation built and calls sendRequest
sendStudioAPIRequest ==
    /\ pc = "built"
    /\ BaseOf(call.op) = "apiStudioV1"
    /\ req' = StudioHeaders(client, req)
    /\ pc' = "do"
    /\ UNCHANGED <<call, resp, val, err, sends, closes, primary, closeErr, client, urls, queried, ctxDone, outer>>

\* func sendSimpleAPIRequest: sets the simple headers, with the session ID
\* the operation passes, and calls sendRequest
sendSimpleAPIRequest ==
    /\ pc = "built"
    /\ BaseOf(call.op) = "apiV1"
    /\ req' = SimpleHeaders(client, req, call.session)
    /\ pc' = "do"
    /\ UNCHANGED <<call, resp, val, err, sends, closes, primary, closeErr, client, urls, queried, ctxDone, outer>>

\* resp, err := c.client.Do(r): the request is handed to the transport
Do ==
    /\ pc = "do"
    /\ sends < MaxSends
    /\ sends' = sends + 1
    /\ pc' = "waiting"
    /\ UNCHANGED <<call, req, resp, val, err, closes, primary, closeErr, client, urls, queried, ctxDone, outer>>

\* the caller cancels the context of the call while the round trip (the send
\* and the full read of the body) is still under way; the code itself never
\* reads ctx, cancellation reaches it through c.client.Do and io.ReadAll
CancelContext ==
    /\ pc \in {"do", "waiting", "reading"}
    /\ ~ctxDone
    /\ ctxDone' = TRUE
    /\ UNCHANGED <<pc, call, req, resp, val, err, sends, closes, primary, closeErr, client, urls, queried, outer>>

\* c.client.Do returned an error
TransportFail ==
    /\ pc = "waiting"
    /\ err' = TransportError
    /\ pc' = AfterTransportError
    /\ UNCHANGED <<call, req, resp, val, sends, closes, primary, closeErr, client, urls, queried, ctxDone, outer>>

\* c.client.Do returned a response with this status code; the request's
\* context governs the send, so none arrives once it is cancelled
TransportRespond(status) ==
    /\ pc = "waiting"
    /\ ~ctxDone
    /\ resp' = [received |-> TRUE, status |-> status, body |-> NoBodyRead]
    /\ pc' = "reading"
    /\ UNCHANGED <<call, req, val, err, sends, closes, primary, closeErr, client, urls, queried, ctxDone, outer>>

\* b, err := io.ReadAll(resp.Body) failed
ReadFail ==
    /\ pc = "reading"
    /\ err' = ReadError
    /\ pc' = AfterReadError
    /\ UNCHANGED <<call, req, resp, val, sends, closes, primary, closeErr, client, urls, queried, ctxDone, outer>>

\* b, err := io.ReadAll(resp.Body) read the whole body b; the request's
\* context governs the body too, so the read fails once it is cancelled
ReadBody(b) ==
    /\ pc = "reading"
    /\ ~ctxDone
    /\ resp' = [resp EXCEPT !.body = b]
    /\ pc' = "classify"
    /\ UNCHANGED <<call, req, val, err, sends, closes, primary, closeErr, client, urls, queried, ctxDone, outer>>

\* status classification and decoding
Classify ==
    /\ pc = "classify"
    /\ LET o == Outcome(call.T, resp.status, resp.body)
       IN val' = o.val /\ err' = o.err
    /\ pc' = "closing"
    /\ UNCHANGED <<call, req, resp, sends, closes, primary, closeErr, client, urls, queried, ctxDone, outer>>

\* defer func() { err = combine(err, errors.WithStack(resp.Body.Close())) }()
CloseBody(fails) ==
    /\ pc = "closing"
    /\ closes' = closes + 1
    /\ primary' = err
    /\ closeErr' = IF fails THEN CloseError ELSE Nil
    /\ err' = combine(err, closeErr')
    /\ pc' = "returned"
    /\ UNCHANGED <<call, req, resp, val, sends, client, urls, queried, ctxDone, outer>>

\* the call returns (val, err): its locals are gone
ReturnLocals ==
    /\ pc = "returned"
    /\ seenDone' = IF call.op = "CheckDeploymentStatus" /\ err = Nil /\ val.done
                   THEN seenDone \cup {call.id} ELSE seenDone
    /\ pc' = "idle"
    /\ call' = NoCall
    /\ req' = NoReq
    /\ resp' = NoResp
    /\ val' = ZeroVal
    /\ err' = Nil
    /\ sends' = 0
    /\ closes' = 0
    /\ primary' = Nil
    /\ closeErr' = Nil
    /\ lastSession' = call.session
    /\ failedBefore' = (failedBefore \/ err # Nil)
    /\ ctxDone' = FALSE
    /\ UNCHANGED <<client, urls, peer, helpers>>

\* the call has returned (val, err) to its caller, who may call again
Return == ReturnLocals /\ UNCHANGED <<handles, queried>>

\* the same return, seen by an observer who notes whether the call that
\* returns had put query parameters on its URL
ReturnNoted ==
    /\ ReturnLocals
    /\ queried' = (queried \/ call.query # {})
    /\ UNCHANGED handles

---------------------------------------------------------------------------
(* A polling caller: it deploys a scene, keeps the handle it got and calls  *)
(* CheckDeploymentStatus with that handle's name until a check returns a    *)
(* handle with done=true, calling again after every failed poll.            *)

KeepOverwriting(hs, v) ==
    IF Len(hs) < MaxHandles THEN [i \in 1..Len(hs) |-> v] \o <<v>>
    ELSE [i \in 1..MaxHandles |-> v]

\* the caller stores the returned struct next to the ones it holds; when it
\* holds MaxHandles it reuses the variable of its latest one.  The methods
\* return CheckDeploymentStatusResponse and DeploymentResponse by value, and
\* these structs have string, bool and struct members only.
Keep(hs, v) ==
    IF Len(hs) < MaxHandles THEN Append(hs, v)
    ELSE SubSeq(hs, 1, MaxHandles - 1) \o <<v>>

\* the caller holds a handle with done=true that a check returned
HoldsDone == Len(handles) >= 2 /\ handles[Len(handles)].done

PollerDeploy ==
    /\ handles = <<>>
    /\ DeployScene("background", "workspaces/w/scenes/s1")

PollerCheck ==
    /\ handles # <<>>
    /\ ~HoldsDone
    /\ CheckDeploymentStatus("background", handles[1].name)

\* the call has returned to the polling caller, who keeps a handle returned
\* without error
ReturnToPoller ==
    /\ ReturnLocals
    /\ handles' = IF err = Nil THEN Keep(handles, val) ELSE handles
    /\ UNCHANGED queried

---------------------------------------------------------------------------
(* A second caller.  Client's methods have value receivers and build their  *)
(* request, response and result in locals, so a concurrent call has locals *)
(* of its own; what the two share is the Client's fields and the package-  *)
(* level base URLs, which the code only reads.                              *)

NoPeer ==
    [pc |-> "idle", call |-> NoCall, req |-> NoReq, resp |-> NoResp,
     val |-> ZeroVal, err |-> Nil, closeErr |-> Nil]

PeerReject(c, e) ==
    /\ peer' = [peer EXCEPT !.call = c, !.err = e, !.pc = "returned"]
    /\ UNCHANGED <<first, client, urls, queried, seenDone, lastSession, handles, failedBefore, helpers>>

PeerIssue(c, r) ==
    /\ peer' = [peer EXCEPT !.call = c, !.req = r, !.pc = "do"]
    /\ UNCHANGED <<first, client, urls, queried, seenDone, lastSession, handles, failedBefore, helpers>>

PeerSimpleSendText(ctx, character, text, sessionID) ==
    /\ peer.pc = "idle"
    /\ LET c == [NoCall EXCEPT !.op = "SimpleSendText", !.T = "inworld.Interaction",
                    !.ctx = ctx, !.id = character, !.text = text, !.session = sessionID]
           r == NewRequest("POST", JoinPath(urls.apiV1, <<character \o ":simpleSendText">>), "json")
       IN IF character = "" THEN PeerReject(c, InputError("character is required"))
          ELSE IF text = "" THEN PeerReject(c, InputError("text is required"))
          ELSE IF ctx = "nil" THEN PeerReject(c, RequestError)
          ELSE PeerIssue(c, SimpleHeaders(client, r, sessionID))

PeerCheckDeploymentStatus(ctx, operationID) ==
    /\ peer.pc = "idle"
    /\ LET c == [NoCall EXCEPT !.op = "CheckDeploymentStatus", !.T = "inworld.CheckDeploymentStatusResponse", !.ctx = ctx, !.id = operationID]
           r == NewRequest("GET", JoinPath(urls.apiStudioV1, <<operationID>>), "")
       IN IF operationID = "" THEN PeerReject(c, InputError("operation id cannot be empty"))
          ELSE IF ctx = "nil" THEN PeerReject(c, RequestError)
          ELSE PeerIssue(c, StudioHeaders(client, r))

PeerDo ==
    /\ peer.pc = "do"
    /\ peer' = [peer EXCEPT !.pc = "waiting"]
    /\ UNCHANGED <<first, client, urls, queried, seenDone, lastSession, handles, failedBefore, helpers>>

PeerTransportFail ==
    /\ peer.pc = "waiting"
    /\ peer' = [peer EXCEPT !.err = TransportError, !.pc = AfterTransportError]
    /\ UNCHANGED <<first, client, urls, queried, seenDone, lastSession, handles, failedBefore, helpers>>

PeerTransportRespond(status) ==
    /\ peer.pc = "waiting"
    /\ peer' = [peer EXCEPT !.resp = [received |-> TRUE, status |-> status, body |-> NoBodyRead],
                            !.pc = "reading"]
    /\ UNCHANGED <<first, client, urls, queried, seenDone, lastSession, handles, failedBefore, helpers>>

PeerReadFail ==
    /\ peer.pc = "reading"
    /\ peer' = [peer EXCEPT !.err = ReadError, !.pc = AfterReadError]
    /\ UNCHANGED <<first, client, urls, queried, seenDone, lastSession, handles, failedBefore, helpers>>

PeerReadBody(b) ==
    /\ peer.pc = "reading"
    /\ peer' = [peer EXCEPT !.resp.body = b, !.pc = "classify"]
    /\ UNCHANGED <<first, client, urls, queried, seenDone, lastSession, handles, failedBefore, helpers>>

PeerClassify ==
    /\ peer.pc = "classify"
    /\ LET o == Outcome(peer.call.T, peer.resp.status, peer.resp.body)
       IN peer' = [peer EXCEPT !.val = o.val, !.err = o.err, !.pc = "closing"]
    /\ UNCHANGED <<first, client, urls, queried, seenDone, lastSession, handles, failedBefore, helpers>>

PeerCloseBody(fails) ==
    /\ peer.pc = "closing"
    /\ LET ce == IF fails THEN CloseError ELSE Nil
       IN peer' = [peer EXCEPT !.closeErr = ce, !.err = combine(@, ce), !.pc = "returned"]
    /\ UNCHANGED <<first, client, urls, queried, seenDone, lastSession, handles, failedBefore, helpers>>

PeerReturn ==
    /\ peer.pc = "returned"
    /\ peer' = NoPeer
    /\ UNCHANGED <<first, client, urls, queried, seenDone, lastSession, handles, failedBefore, helpers>>

---------------------------------------------------------------------------
(* The specification *)

\* a *status.Status: code, message and the details attached to it
NoStatus == [code |-> CodeOK, message |-> "", details |-> <<>>]

\* no *Error value is under test
NoProbe == [e |-> ZeroError, called |-> {}, text |-> "", status |-> NoStatus]

\* bytes.Buffer: nil as long as the reader has not been read
NilBuffer == [nil |-> TRUE, bytes |-> ""]

\* no reader has been made
NoReader == [v |-> [type |-> "", text |-> ""], buf |-> NilBuffer]
NoReads == [count |-> 0, stream |-> "", encodes |-> 0, n |-> 0, err |-> "", ended |-> FALSE]

\* NewClient(simpleAPIKey, studioAPIKey, client)
NewClient(simpleAPIKey, studioAPIKey) ==
    [simpleAPIKey |-> simpleAPIKey, studioAPIKey |-> studioAPIKey]

InitCalls ==
    /\ pc = "idle"
    /\ call = NoCall
    /\ req = NoReq
    /\ resp = NoResp
    /\ val = ZeroVal
    /\ err = Nil
    /\ sends = 0
    /\ closes = 0
    /\ primary = Nil
    /\ closeErr = Nil
    /\ client = NewClient("c2ltcGxl", "c3R1ZGlv")
    /\ seenDone = {}
    /\ lastSession = ""
    /\ ctxDone = FALSE
    /\ peer = NoPeer
    /\ handles = <<>>
    /\ failedBefore = FALSE
    /\ urls = [apiV1 |-> apiV1, apiStudioV1 |-> apiStudioV1]
    /\ queried = FALSE

\* no helper function has been given a value
Init ==
    /\ InitCalls
    /\ probe = NoProbe
    /\ reader = NoReader
    /\ reads = NoReads

Next ==
    \/ \E ctx \in Contexts, id \in WorkspaceIDs : CreateScene(ctx, id)
    \/ \E ctx \in Contexts, id \in SceneIDs, view \in SceneItemViews : GetScene(ctx, id, view)
    \/ \E ctx \in Contexts, id \in SceneIDs : DeployScene(ctx, id)
    \/ \E ctx \in Contexts, id \in WorkspaceIDs, lreq \in ListRequests : GetScenes(ctx, id, lreq)
    \/ \E ctx \in Contexts, id \in SceneIDs : UpdateScene(ctx, id)
    \/ \E ctx \in Contexts, id \in SceneIDs : DeleteScene(ctx, id)
    \/ \E ctx \in Contexts, id \in WorkspaceIDs : CreateCharacter(ctx, id)
    \/ \E ctx \in Contexts, id \in CharacterNames, view \in CharacterItemViews : GetCharacter(ctx, id, view)
    \/ \E ctx \in Contexts, id \in CharacterNames : DeployCharacter(ctx, id)
    \/ \E ctx \in Contexts, id \in WorkspaceIDs, lreq \in CharacterListRequests : GetCharacters(ctx, id, lreq)
    \/ \E ctx \in Contexts, id \in CharacterNames : UpdateCharacter(ctx, id)
    \/ \E ctx \in Contexts, id \in CharacterNames : DeleteCharacter(ctx, id)
    \/ \E ctx \in Contexts, id \in WorkspaceIDs : CreateCommonKnowledge(ctx, id)
    \/ \E ctx \in Contexts, id \in CommonKnowledgeIDs : GetCommonKnowledge(ctx, id)
    \/ \E ctx \in Contexts, id \in CommonKnowledgeIDs : DeployCommonKnowledge(ctx, id)
    \/ \E ctx \in Contexts, id \in WorkspaceIDs, lreq \in ListRequests : ListCommonKnowledge(ctx, id, lreq)
    \/ \E ctx \in Contexts, id \in CommonKnowledgeIDs : UpdateCommonKnowledge(ctx, id)
    \/ \E ctx \in Contexts, id \in CommonKnowledgeIDs : DeleteCommonKnowledge(ctx, id)
    \/ \E ctx \in Contexts, id \in OperationIDs : CheckDeploymentStatus(ctx, id)
    \/ \E ctx \in Contexts, ch \in CharacterNames, t \in Texts, sid \in SessionIDs :
          SimpleSendText(ctx, ch, t, sid)
    \/ \E ctx \in Contexts, n \in SceneIDs : OpenSession(ctx, n)
    \/ \E ctx \in Contexts, sid \in SessionIDs, sc \in SessionCharacters, t \in Texts :
          SendText(ctx, sid, sc, t)
    \/ \E ctx \in Contexts, sid \in SessionIDs, sc \in SessionCharacters,
          tr \in Triggers, ps \in ParameterLists :
          SendTrigger(ctx, sid, sc, tr, ps)
    \/ sendStudioAPIRequest
    \/ sendSimpleAPIRequest
    \/ Do
    \/ CancelContext
    \/ TransportFail
    \/ \E status \in Statuses : TransportRespond(status)
    \/ ReadFail
    \/ \E b \in Bodies : ReadBody(b)
    \/ Classify
    \/ \E fails \in BOOLEAN : CloseBody(fails)
    \/ Return

Spec == Init /\ [][Next]_vars

\* every operation, each answered the same way: what varies is the sequence
\* of operations and their arguments
NextRequests ==
    \/ \E ctx \in Contexts, id \in WorkspaceIDs : CreateScene(ctx, id)
    \/ \E ctx \in Contexts, id \in SceneIDs, view \in SceneItemViews : GetScene(ctx, id, view)
    \/ \E ctx \in Contexts, id \in SceneIDs : DeployScene(ctx, id)
    \/ \E ctx \in Contexts, id \in WorkspaceIDs, lreq \in ListRequests : GetScenes(ctx, id, lreq)
    \/ \E ctx \in Contexts, id \in SceneIDs : UpdateScene(ctx, id)
    \/ \E ctx \in Contexts, id \in SceneIDs : DeleteScene(ctx, id)
    \/ \E ctx \in Contexts, id \in WorkspaceIDs : CreateCharacter(ctx, id)
    \/ \E ctx \in Contexts, id \in CharacterNames, view \in CharacterItemViews : GetCharacter(ctx, id, view)
    \/ \E ctx \in Contexts, id \in CharacterNames : DeployCharacter(ctx, id)
    \/ \E ctx \in Contexts, id \in WorkspaceIDs, lreq \in CharacterListRequests : GetCharacters(ctx, id, lreq)
    \/ \E ctx \in Contexts, id \in CharacterNames : UpdateCharacter(ctx, id)
    \/ \E ctx \in Contexts, id \in CharacterNames : DeleteCharacter(ctx, id)
    \/ \E ctx \in Contexts, id \in WorkspaceIDs : CreateCommonKnowledge(ctx, id)
    \/ \E ctx \in Contexts, id \in CommonKnowledgeIDs : GetCommonKnowledge(ctx, id)
    \/ \E ctx \in Contexts, id \in CommonKnowledgeIDs : DeployCommonKnowledge(ctx, id)
    \/ \E ctx \in Contexts, id \in WorkspaceIDs, lreq \in ListRequests : ListCommonKnowledge(ctx, id, lreq)
    \/ \E ctx \in Contexts, id \in CommonKnowledgeIDs : UpdateCommonKnowledge(ctx, id)
    \/ \E ctx \in Contexts, id \in CommonKnowledgeIDs : DeleteCommonKnowledge(ctx, id)
    \/ \E ctx \in Contexts, id \in OperationIDs : CheckDeploymentStatus(ctx, id)
    \/ \E ctx \in Contexts, ch \in CharacterNames, t \in Texts, sid \in SessionIDs :
          SimpleSendText(ctx, ch, t, sid)
    \/ \E ctx \in Contexts, n \in SceneIDs : OpenSession(ctx, n)
    \/ \E ctx \in Contexts, sid \in SessionIDs, sc \in SessionCharacters, t \in Texts :
          SendText(ctx, sid, sc, t)
    \/ \E ctx \in Contexts, sid \in SessionIDs, sc \in SessionCharacters,
          tr \in Triggers, ps \in ParameterLists :
          SendTrigger(ctx, sid, sc, tr, ps)
    \/ sendStudioAPIRequest
    \/ sendSimpleAPIRequest
    \/ Do
    \/ TransportFail
    \/ TransportRespond(StatusOK)
    \/ ReadBody(BodyEmptyObject)
    \/ Classify
    \/ CloseBody(FALSE)
    \/ ReturnNoted

SpecRequests == Init /\ [][NextRequests]_vars

\* the responses of the runs with two callers
ConcurrentStatuses == {StatusOK, 404}
ConcurrentBodies == {BodyPending, BodyDone, BodyNotFound}

\* two goroutines call the same client at the same time
NextConcurrent ==
    \/ \E ctx \in Contexts, sid \in SessionIDs :
          SimpleSendText(ctx, "workspaces/w/characters/c1", "hello", sid)
    \/ \E ctx \in Contexts : CheckDeploymentStatus(ctx, OpName)
    \/ sendStudioAPIRequest
    \/ sendSimpleAPIRequest
    \/ Do
    \/ TransportFail
    \/ \E status \in ConcurrentStatuses : TransportRespond(status)
    \/ ReadFail
    \/ \E b \in ConcurrentBodies : ReadBody(b)
    \/ Classify
    \/ \E fails \in BOOLEAN : CloseBody(fails)
    \/ Return
    \/ \E ctx \in Contexts, sid \in SessionIDs :
          PeerSimpleSendText(ctx, "workspaces/w/characters/c1", "hello", sid)
    \/ \E ctx \in Contexts : PeerCheckDeploymentStatus(ctx, OpName)
    \/ PeerDo
    \/ PeerTransportFail
    \/ \E status \in ConcurrentStatuses : PeerTransportRespond(status)
    \/ PeerReadFail
    \/ \E b \in ConcurrentBodies : PeerReadBody(b)
    \/ PeerClassify
    \/ \E fails \in BOOLEAN : PeerCloseBody(fails)
    \/ PeerReturn

SpecConcurrent == Init /\ [][NextConcurrent]_vars

\* the responses of the runs with the polling caller
PollStatuses == {StatusOK, 500}
PollBodies == {BodyPending, BodyDone, BodyEmptyObject, BodyGarbage}

\* c.client.Do returns, io.ReadAll returns, resp.Body.Close returns
DoReturns == TransportFail \/ \E status \in PollStatuses : TransportRespond(status)
ReadReturns == ReadFail \/ \E b \in PollBodies : ReadBody(b)
CloseReturns == \E fails \in BOOLEAN : CloseBody(fails)

NextPoll ==
    \/ PollerDeploy
    \/ PollerCheck
    \/ sendStudioAPIRequest
    \/ Do
    \/ DoReturns
    \/ ReadReturns
    \/ Classify
    \/ CloseReturns
    \/ ReturnToPoller

SpecPoll == Init /\ [][NextPoll]_vars

\* The caller keeps polling and every call into the transport returns (weak
\* fairness); of the polls that are sent, again and again one is answered
\* with status 200, of those again and again one with a body that reports
\* done=true, and of those again and again one is closed without error
\* (strong fairness of the transport and of the remote service).
PollFairness ==
    /\ WF_vars(PollerCheck)
    /\ WF_vars(sendStudioAPIRequest)
    /\ WF_vars(Do)
    /\ WF_vars(DoReturns)
    /\ WF_vars(ReadReturns)
    /\ WF_vars(Classify)
    /\ WF_vars(CloseReturns)
    /\ WF_vars(ReturnToPoller)
    /\ SF_vars(call.op = "CheckDeploymentStatus" /\ TransportRespond(StatusOK))
    /\ SF_vars(call.op = "CheckDeploymentStatus" /\ resp.status = StatusOK
                  /\ ReadBody(BodyDone))
    /\ SF_vars(call.op = "CheckDeploymentStatus" /\ err = Nil /\ val.done
                  /\ CloseBody(FALSE))

SpecPollFair == SpecPoll /\ PollFairness

---------------------------------------------------------------------------
(* Vocabulary of the properties *)

DeployOps == {"DeployScene", "DeployCharacter", "DeployCommonKnowledge"}

\* the status is in [200, 400)
InSuccessRange(status) == status >= 200 /\ status < 400

\* the done member of the response body as sent: true only when the body
\* is an object whose "done" is the JSON literal true
WireDone(b) == b.json.t = "object" /\ b.json.f.done.t = "bool" /\ b.json.f.done.b

\* the first min(len, 200) bytes of the body
Snippet(b) == SubSeq(b.raw, 1, IF Len(b.raw) < 200 THEN Len(b.raw) ELSE 200)

\* the call has returned after a response arrived and its body was read in full
BodyWasRead == pc = "returned" /\ resp.received /\ "read" \notin Kinds(err)

\* a required identifier of the call is empty
RequiredIdentifierEmpty ==
    /\ call.op # ""
    /\ \/ call.id = ""
       \/ call.op \in {"SendText", "SendTrigger"} /\ call.session = ""

\* the operations of the two API families
StudioOps ==
    {"CreateScene", "GetScene", "DeployScene", "GetScenes", "UpdateScene",
     "DeleteScene", "CreateCharacter", "GetCharacter", "DeployCharacter",
     "GetCharacters", "UpdateCharacter", "DeleteCharacter",
     "CreateCommonKnowledge", "GetCommonKnowledge", "DeployCommonKnowledge",
     "ListCommonKnowledge", "UpdateCommonKnowledge", "DeleteCommonKnowledge",
     "CheckDeploymentStatus"}
SimpleOps == {"SimpleSendText", "OpenSession", "SendText", "SendTrigger"}

\* the request of the current call has been handed to the transport
RequestSent == sends > 0

\* the credentials the client was constructed with
KeysGiven == [simpleAPIKey |-> "c2ltcGxl", studioAPIKey |-> "c3R1ZGlv"]

\* the values the request carries for header k
HeaderValues(k) == {x[2] : x \in {y \in req.headers : y[1] = k}}

\* the request that a SimpleSendText or CheckDeploymentStatus call with the
\* arguments of c sends when it is the only call on the client
LoneRequest(c) ==
    IF c.op = "SimpleSendText"
    THEN [method |-> "POST",
          url |-> "https://api.inworld.ai/v1/" \o c.id \o ":simpleSendText",
          headers |-> {<<"Authorization", "Basic " \o KeysGiven.simpleAPIKey>>}
                      \cup (IF c.session = "" THEN {}
                            ELSE {<<"Grpc-Metadata-Session-Id", c.session>>}),
          body |-> "json"]
    ELSE [method |-> "GET",
          url |-> "https://api.inworld.ai/studio/v1/" \o c.id,
          headers |-> {<<"Authorization", "Basic " \o KeysGiven.studioAPIKey>>,
                       <<"Grpc-Metadata-X-Authorization-Bearer-Type", "studio_api">>},
          body |-> ""]

\* the result that a call of result type T returns for the response rsp and
\* the close error cerr when it is the only call on the client
LoneResult(T, rsp, cerr) ==
    IF ~rsp.received THEN [val |-> ZeroVal, err |-> TransportError]
    ELSE IF rsp.body = NoBodyRead
    THEN [val |-> ZeroVal, err |-> combine(ReadError, cerr)]
    ELSE LET o == Outcome(T, rsp.status, rsp.body)
         IN [val |-> o.val, err |-> combine(o.err, cerr)]

\* the members of the response body as sent: a string "name", the "@type"
\* of an object "metadata" or "response"; "" when the body has none
WireName(b) ==
    IF b.json.t = "object" /\ b.json.f.name.t = "str" THEN b.json.f.name.s ELSE ""
WireMetadata(b) ==
    IF b.json.t = "object" /\ b.json.f.metadata.t = "obj" THEN b.json.f.metadata.s ELSE ""
WireResponse(b) ==
    IF b.json.t = "object" /\ b.json.f.response.t = "obj" THEN b.json.f.response.s ELSE ""

\* the headers of the studio family
StudioFamilyHeaders ==
    {<<"Authorization", "Basic " \o KeysGiven.studioAPIKey>>,
     <<"Grpc-Metadata-X-Authorization-Bearer-Type", "studio_api">>}

\* the call got past the validation of its arguments with a usable context
CallAccepted == call.op # "" /\ call.id # "" /\ call.ctx = "background"

---------------------------------------------------------------------------
(* Properties *)

\* C1 (as stated): once a CheckDeploymentStatus call has returned done=true
\* for an identifier, every later successful call for that identifier
\* returns done=true.
C1_TerminalStability ==
    (pc = "returned" /\ call.op = "CheckDeploymentStatus" /\ err = Nil
        /\ call.id \in seenDone)
    => val.done

\* C1 (amended): once a CheckDeploymentStatus call has returned done=true for
\* an identifier, a later successful call for it returns done=true exactly
\* when its own response body says done=true; the client passes the remote
\* service's flag through and adds no DONE to PENDING transition of its own.
C1_TerminalStabilityOfTheWire ==
    (pc = "returned" /\ call.op = "CheckDeploymentStatus" /\ err = Nil
        /\ call.id \in seenDone)
    => (val.done <=> WireDone(resp.body))

C1_Witness ==
    /\ pc = "returned" /\ call.op = "CheckDeploymentStatus" /\ err = Nil
    /\ call.id \in seenDone /\ val.done

\* C2 (as stated): every handle a deploy call returns without error has
\* done=false, whatever the response body says.
C2_DeployStartsPending ==
    (pc = "returned" /\ call.op \in DeployOps /\ err = Nil) => ~val.done

\* C2 (amended): the handle a deploy call returns without error has done
\* equal to the done member of the response body: false when the body says
\* false or omits it, true when the remote service reports true.
C2_DeployDoneIsTheWireDone ==
    (pc = "returned" /\ call.op \in DeployOps /\ err = Nil)
    => (val.done <=> WireDone(resp.body))

C2_Witness ==
    /\ pc = "returned" /\ call.op \in DeployOps /\ err = Nil
    /\ resp.body = BodyPending /\ ~val.done /\ val.name = OpName

\* C3: a call whose required identifier is empty returns an error and never
\* reaches the transport.
C3_EmptyIdentifierRejected ==
    RequiredIdentifierEmpty => (pc = "returned" /\ err # Nil /\ sends = 0)

\* C4: a call hands at most one request to the transport, whatever happens.
C4_AtMostOneSend == sends <= 1

C4_Witness == pc = "returned" /\ sends = 1 /\ "transport" \in Kinds(err)

\* C5: a response is a failure if and only if its status is outside
\* [200, 400): inside, the body is decoded as the success type and no
\* structured or generic failure is returned; outside, the error is never
\* nil and the success type is never decoded.
C5_StatusClassification ==
    BodyWasRead =>
        IF InSuccessRange(resp.status)
        THEN /\ Kinds(err) \cap {"structured", "generic"} = {}
             /\ val = DecodeValue(call.T, resp.body.json).v
             /\ (primary = Nil <=> ~DecodeValue(call.T, resp.body.json).failed)
        ELSE /\ err # Nil
             /\ Kinds(err) \cap {"structured", "generic"} # {}
             /\ "decode" \notin Kinds(err)
             /\ val = ZeroVal

C5_Witness ==
    /\ BodyWasRead /\ resp.status = 399 /\ resp.body = BodyDone
    /\ err = Nil /\ val.done

\* C6: for a status outside [200, 400) and a body that decodes as an error
\* envelope with a code other than OK, the returned error carries a
\* Structured Error with exactly the body's code, message and details.
C6_StructuredError ==
    (BodyWasRead /\ ~InSuccessRange(resp.status)
        /\ ~DecodeEnvelope(resp.body.json).failed
        /\ DecodeEnvelope(resp.body.json).e.Code # CodeOK)
    => \E i \in DOMAIN err :
          /\ err[i].kind = "structured"
          /\ err[i].code = DecodeEnvelope(resp.body.json).e.Code
          /\ err[i].message = resp.body.json.f.message.s
          /\ err[i].details = resp.body.json.f.details.a
          /\ \A k \in DOMAIN err : k # i => err[k].kind = "close"

C6_Witness ==
    /\ BodyWasRead /\ resp.status = 404 /\ resp.body = BodyNotFound
    /\ \E i \in DOMAIN err :
          err[i].kind = "structured" /\ err[i].code = 5 /\ err[i].details = <<"d1", "d2">>

\* C7: for a status outside [200, 400) and a body that does not decode as
\* an error envelope or decodes with code OK, the returned error carries a
\* generic failure with the status code and the first min(len, 200) bytes
\* of the body; no Structured Error ever has code OK.
C7_GenericFailure ==
    /\ \A i \in DOMAIN err : err[i].kind = "structured" => err[i].code # CodeOK
    /\ (BodyWasRead /\ ~InSuccessRange(resp.status)
           /\ (DecodeEnvelope(resp.body.json).failed
               \/ DecodeEnvelope(resp.body.json).e.Code = CodeOK))
       => \E i \in DOMAIN err :
             /\ err[i].kind = "generic"
             /\ err[i].status = resp.status
             /\ err[i].snippet = Snippet(resp.body)
             /\ err[i].msg = "request failed with status " \o ToString(resp.status)
                                \o ": " \o Snippet(resp.body)

C7_Witness ==
    /\ BodyWasRead /\ resp.status = 500 /\ resp.body = BodyLongGarbage
    /\ \E i \in DOMAIN err :
          err[i].kind = "generic" /\ Len(err[i].snippet) = 200
             /\ Len(resp.body.raw) > 200

\* C8: for a status in [200, 400) and a body that cannot be decoded into
\* the success type, the returned error is not nil and carries a decode
\* error with the type's name and the first min(len, 200) bytes of the body.
C8_DecodeError ==
    (BodyWasRead /\ InSuccessRange(resp.status)
        /\ DecodeValue(call.T, resp.body.json).failed)
    => /\ err # Nil
       /\ \E i \in DOMAIN err :
             /\ err[i].kind = "decode"
             /\ err[i].type = call.T
             /\ err[i].snippet = Snippet(resp.body)
             /\ Len(err[i].snippet) <= 200

C8_Witness ==
    /\ BodyWasRead /\ resp.status = 200 /\ resp.body = BodyEmpty
    /\ call.T = "inworld.DeploymentResponse" /\ "decode" \in Kinds(err)

\* C9: when the send succeeded the body is closed exactly once before the
\* call returns, on every path; when the send failed nothing is closed.
C9_ClosedExactlyOnce ==
    /\ closes <= 1
    /\ pc = "returned" => closes = (IF resp.received THEN 1 ELSE 0)

C9_Witness == pc = "returned" /\ "read" \in Kinds(err) /\ closes = 1

\* C10: the returned error is nil only if neither the primary steps nor the
\* close failed; it is the close failure if only the close failed, the
\* primary failure if only that failed, and holds both if both failed.
C10_NoFailureSwallowed ==
    (pc = "returned" /\ closes = 1)
    => /\ err = Nil <=> (primary = Nil /\ closeErr = Nil)
       /\ primary = Nil => err = closeErr
       /\ closeErr = Nil => err = primary
       /\ (primary # Nil /\ closeErr # Nil)
          => /\ Len(err) = Len(primary) + Len(closeErr)
             /\ \A i \in DOMAIN primary : err[i] = primary[i]
             /\ \A i \in DOMAIN closeErr : err[Len(primary) + i] = closeErr[i]

C10_Witness ==
    /\ pc = "returned" /\ closes = 1
    /\ "decode" \in Kinds(primary) /\ closeErr # Nil /\ Len(err) = 2

\* C11: every request sent for a studio-family operation carries the header
\* Grpc-Metadata-X-Authorization-Bearer-Type with the value studio_api, and
\* no request sent for a simple-family operation carries that header.
C11_StudioMarker ==
    RequestSent =>
        /\ call.op \in StudioOps \cup SimpleOps
        /\ call.op \in StudioOps =>
              HeaderValues("Grpc-Metadata-X-Authorization-Bearer-Type") = {"studio_api"}
        /\ call.op \in SimpleOps =>
              HeaderValues("Grpc-Metadata-X-Authorization-Bearer-Type") = {}

C11_Witness ==
    /\ RequestSent /\ call.op = "GetScene"
    /\ <<"Grpc-Metadata-X-Authorization-Bearer-Type", "studio_api">> \in req.headers

\* C12: every request sent carries Authorization equal to "Basic " followed
\* by the credential of its own API family as given to NewClient (studio
\* requests the studio key, simple requests the simple key, never the other
\* one), and the two stored keys are the ones given, whatever was called.
C12_OwnFamilyCredential ==
    /\ client = KeysGiven
    /\ RequestSent =>
          /\ call.op \in StudioOps =>
                HeaderValues("Authorization") = {"Basic " \o KeysGiven.studioAPIKey}
          /\ call.op \in SimpleOps =>
                HeaderValues("Authorization") = {"Basic " \o KeysGiven.simpleAPIKey}

C12_Witness ==
    /\ RequestSent /\ call.op = "SendText" /\ seenDone # {}
    /\ HeaderValues("Authorization") = {"Basic c2ltcGxl"}
    /\ client.studioAPIKey = "c3R1ZGlv"

\* C13: a simple-family request carries Grpc-Metadata-Session-Id exactly when
\* its caller gave a non-empty session ID, and then with that value: SendText
\* and SendTrigger requests always carry it, OpenSession requests never,
\* SimpleSendText requests when req.SessionID is non-empty; the session ID of
\* an earlier call is never on the request of a later one.
C13_SessionHeader ==
    (RequestSent /\ call.op \in SimpleOps) =>
        /\ HeaderValues("Grpc-Metadata-Session-Id") =
              (IF call.session = "" THEN {} ELSE {call.session})
        /\ call.op \in {"SendText", "SendTrigger"} =>
              HeaderValues("Grpc-Metadata-Session-Id") # {}
        /\ call.op = "OpenSession" => HeaderValues("Grpc-Metadata-Session-Id") = {}

C13_Witness ==
    /\ RequestSent /\ call.op = "SimpleSendText" /\ call.session = ""
    /\ lastSession = "sess1" /\ HeaderValues("Grpc-Metadata-Session-Id") = {}

C15_NoInterference ==
    /\ [](/\ client = KeysGiven
          /\ (req # NoReq /\ pc # "built") => req = LoneRequest(call)
          /\ peer.req # NoReq => peer.req = LoneRequest(peer.call)
          /\ (pc = "returned" /\ req # NoReq) =>
                [val |-> val, err |-> err] = LoneResult(call.T, resp, closeErr)
          /\ (peer.pc = "returned" /\ peer.req # NoReq) =>
                [val |-> peer.val, err |-> peer.err]
                    = LoneResult(peer.call.T, peer.resp, peer.closeErr))
    /\ [][/\ client' = client
          /\ peer' # peer => first' = first
          /\ first' # first => peer' = peer]_vars

C15_Witness ==
    /\ pc = "closing" /\ peer.pc = "closing"
    /\ call.op = "CheckDeploymentStatus" /\ peer.call.op = "CheckDeploymentStatus"
    /\ call.id = peer.call.id /\ val.done /\ ~peer.val.done
    /\ err = Nil /\ peer.err = Nil

\* C16: a deployment handle is an immutable value: no step of a call, be it
\* a successful or a failed CheckDeploymentStatus, changes a handle the
\* caller obtained earlier from a deploy or a check (name, done, metadata,
\* response); a call that returns without error hands the caller a new
\* handle, which the caller stores next to the earlier ones.
C16_HandlesImmutable ==
    [][/\ pc # "returned" => handles' = handles
       /\ \A i \in DOMAIN handles : i < MaxHandles => handles'[i] = handles[i]
       /\ Len(handles') >= Len(handles)
       /\ (pc = "returned" /\ err = Nil) => handles'[Len(handles')] = val
       /\ (pc = "returned" /\ err # Nil) => handles' = handles]_vars

C16_Witness ==
    /\ Len(handles) = 3 /\ handles[1].name = OpName
    /\ ~handles[1].done /\ ~handles[2].done /\ handles[3].done
    /\ handles[1].response = "" /\ handles[3].response # ""

\* C17: a deploy call (scene, character, common knowledge) with a non-empty
\* resource identifier and a usable context sends exactly one request: a
\* POST with an empty body to the studio base path joined with
\* "<identifier>:deploy", with the studio-family headers; a success body
\* that decodes is returned as the deployment handle it denotes.
C17_DeployRequest ==
    (call.op \in DeployOps /\ CallAccepted) =>
        /\ req = [method |-> "POST",
                  url |-> "https://api.inworld.ai/studio/v1/" \o call.id \o ":deploy",
                  headers |-> IF pc = "built" THEN {} ELSE StudioFamilyHeaders,
                  body |-> ""]
        /\ sends <= 1
        /\ pc \notin {"idle", "built", "do"} => sends = 1
        /\ (BodyWasRead /\ ~IsFailureStatus(resp.status) /\ primary = Nil) =>
              val = [name |-> WireName(resp.body), done |-> WireDone(resp.body),
                     metadata |-> WireMetadata(resp.body), response |-> ""]

C17_Witness ==
    /\ call.op = "DeployCommonKnowledge" /\ CallAccepted /\ BodyWasRead /\ err = Nil
    /\ resp.body = BodyDone /\ sends = 1 /\ val.name = OpName /\ val.metadata = "m"
    /\ val.response = ""

\* C18: CheckDeploymentStatus with a non-empty operation identifier and a
\* usable context sends exactly one request: a GET without body to the
\* studio base path joined with the identifier as given (so the name of a
\* handle can be passed back unchanged), with the studio-family headers; a
\* success body that decodes is returned as the handle it denotes.
C18_CheckRequest ==
    (call.op = "CheckDeploymentStatus" /\ CallAccepted) =>
        /\ req = [method |-> "GET",
                  url |-> "https://api.inworld.ai/studio/v1/" \o call.id,
                  headers |-> IF pc = "built" THEN {} ELSE StudioFamilyHeaders,
                  body |-> ""]
        /\ sends <= 1
        /\ pc \notin {"idle", "built", "do"} => sends = 1
        /\ (BodyWasRead /\ ~IsFailureStatus(resp.status) /\ primary = Nil) =>
              val = [name |-> WireName(resp.body), done |-> WireDone(resp.body),
                     metadata |-> WireMetadata(resp.body),
                     response |-> WireResponse(resp.body)]

C18_Witness ==
    /\ call.op = "CheckDeploymentStatus" /\ CallAccepted /\ BodyWasRead /\ err = Nil
    /\ resp.body = BodyDone /\ sends = 1 /\ val.name = call.id /\ val.done
    /\ val.response = "r"
    /\ req.url = "https://api.inworld.ai/studio/v1/workspaces/w/scenes/s1/operations/op1"

\* C19 (as stated): after a deploy that returned without error, a caller
\* that keeps calling CheckDeploymentStatus with the name of the handle,
\* calling again after failed polls, eventually receives a handle with
\* done=true, under fairness of the remote service and the transport.
C19_PollEventuallyDone == (handles # <<>>) ~> HoldsDone

\* C19 (amended): after a deploy that returned, without error, a handle
\* with a non-empty name, a caller that keeps calling CheckDeploymentStatus
\* with that name, calling again after failed polls, eventually receives a
\* handle with done=true, under fairness of the remote service and the
\* transport.
C19_PollOfNamedHandleEventuallyDone ==
    (handles # <<>> /\ handles[1].name # "") ~> HoldsDone

C19_Witness ==
    /\ HoldsDone /\ Len(handles) = 3 /\ handles[1].name # ""
    /\ ~handles[1].done /\ ~handles[2].done /\ seenDone = {handles[1].name}

\* C20: the client is stateless across calls: whatever calls came before,
\* failed polls included, the handle and the error a CheckDeploymentStatus
\* call returns are determined by the response it receives alone (whether
\* one arrived, its status, its body, the outcome of closing it), as in
\* the first call on a new client; nothing of earlier calls is remembered.
C20_StatelessAcrossCalls ==
    (pc = "returned" /\ call.op = "CheckDeploymentStatus" /\ RequestSent) =>
        /\ ~resp.received => (val = ZeroVal /\ err = TransportError)
        /\ (resp.received /\ resp.body = NoBodyRead) =>
              (val = ZeroVal /\ primary = ReadError)
        /\ (BodyWasRead /\ IsFailureStatus(resp.status)) =>
              (val = ZeroVal /\ primary = FailureOf(resp.status, resp.body))
        /\ (BodyWasRead /\ ~IsFailureStatus(resp.status)) =>
              /\ val = [name |-> WireName(resp.body), done |-> WireDone(resp.body),
                        metadata |-> WireMetadata(resp.body),
                        response |-> WireResponse(resp.body)]
              /\ primary \in {Nil, DecodeError(call.T, Snippet(resp.body))}
        /\ resp.received => err = combine(primary, closeErr)

C20_Witness ==
    /\ pc = "returned" /\ call.op = "CheckDeploymentStatus" /\ RequestSent
    /\ call.id \in seenDone /\ failedBefore /\ lastSession # ""
    /\ resp.body = BodyPending /\ err = Nil /\ ~val.done

---------------------------------------------------------------------------
(* C21 *)

\* the path elements that name the identifier id and nothing else
OwnPaths(id) ==
    {<<id>>, <<id \o ":deploy">>, <<id \o ":simpleSendText">>,
     <<id \o ":openSession">>, <<id \o ":sendText">>, <<id \o ":sendTrigger">>}
    \cup {<<"workspaces", id, k>> :
            k \in {"scenes", "characters", "common-knowledge"}}

\* the query strings a call may carry given the criteria it was called with
OwnQuery(q) ==
    LET part(k) == {k \o "=" \o p[2] : p \in {x \in q : x[1] = k}}
        given == [k \in {"filter", "pageSize", "pageToken", "view"} |-> part(k)]
        join(a, b) == IF a = "" THEN b ELSE IF b = "" THEN a ELSE a \o "&" \o b
        one(k) == IF given[k] = {} THEN "" ELSE CHOOSE x \in given[k] : TRUE
    IN join(one("filter"), join(one("pageSize"), join(one("pageToken"), one("view"))))

\* C21: the two base URLs keep their initial value whatever operations run,
\* and the URL of every request is the base URL of its family followed by
\* the path and the query of its own call alone: no path segment and no
\* query parameter of an earlier request shows in it.
C21_BaseURLsNeverModified ==
    /\ urls.apiV1 = "https://api.inworld.ai/v1"
    /\ urls.apiStudioV1 = "https://api.inworld.ai/studio/v1"
    /\ req # NoReq =>
         \E path \in OwnPaths(call.id) :
            req.url =
              JoinPath(IF call.op \in SimpleOps THEN "https://api.inworld.ai/v1"
                       ELSE "https://api.inworld.ai/studio/v1", path)
              \o (IF call.query = {} THEN "" ELSE "?" \o OwnQuery(call.query))

\* a request without query parameters has been sent after an earlier call
\* put query parameters on its URL
C21_Witness ==
    /\ queried
    /\ RequestSent
    /\ call.op = "DeployScene"
    /\ call.query = {}
    /\ req.url = "https://api.inworld.ai/studio/v1/workspaces/w/scenes/s1:deploy"

---------------------------------------------------------------------------
(* C22.  The JSON text of a deployment handle as json.Marshal writes it,  *)
(* and the document the decoder's scanner finds in such a text.            *)

RECURSIVE Escaped(_, _)
\* the characters of s from position i on, a quotation mark and a reverse
\* solidus each preceded by a reverse solidus
Escaped(s, i) ==
    IF i > Len(s) THEN ""
    ELSE LET c == SubSeq(s, i, i)
         IN (IF c = "\"" THEN "\\\"" ELSE IF c = "\\" THEN "\\\\" ELSE c)
            \o Escaped(s, i + 1)

\* a Go string as a JSON string
Quote(s) == "\"" \o Escaped(s, 1) \o "\""

\* json.Marshal of a DeploymentResponse or CheckDeploymentStatusResponse:
\* the members in the order of the struct's fields, under their json tags
Marshal(T, h) ==
    "{\"name\":" \o Quote(h.name)
    \o ",\"metadata\":{\"@type\":" \o Quote(h.metadata) \o "}"
    \o ",\"done\":" \o (IF h.done THEN "true" ELSE "false")
    \o (IF "response" \in TypeFields(T)
        THEN ",\"response\":{\"@type\":" \o Quote(h.response) \o "}" ELSE "")
    \o "}"

RECURSIVE ReadString(_, _, _)
\* the string literal whose first character stands at position i of raw,
\* and the position after its closing quotation mark
ReadString(raw, i, acc) ==
    IF i > Len(raw) THEN [s |-> acc, next |-> i]
    ELSE LET c == SubSeq(raw, i, i)
         IN IF c = "\"" THEN [s |-> acc, next |-> i + 1]
            ELSE IF c = "\\" THEN ReadString(raw, i + 2, acc \o SubSeq(raw, i + 1, i + 1))
            ELSE ReadString(raw, i + 1, acc \o c)

RECURSIVE ReadMembers(_, _, _)
\* the members of an object from the key that opens at position i on; a
\* member's value is a string, true, false or an object {"@type": string}
ReadMembers(raw, i, f) ==
    LET k == ReadString(raw, i + 1, "")
        j == k.next + 1
        c == SubSeq(raw, j, j)
        v == IF c = "\"" THEN LET r == ReadString(raw, j + 1, "")
                              IN [v |-> JStr(r.s), next |-> r.next]
             ELSE IF c = "t" THEN [v |-> JBool(TRUE), next |-> j + 4]
             ELSE IF c = "f" THEN [v |-> JBool(FALSE), next |-> j + 5]
             ELSE LET kk == ReadString(raw, j + 2, "")
                      r == ReadString(raw, kk.next + 2, "")
                  IN [v |-> JObj(r.s), next |-> r.next + 1]
        g == [f EXCEPT ![k.s] = v.v]
    IN IF SubSeq(raw, v.next, v.next) = "," THEN ReadMembers(raw, v.next + 1, g)
       ELSE g

\* the document of a text that json.Marshal wrote for a handle
Scan(raw) ==
    IF raw = "" THEN JEof
    ELSE IF SubSeq(raw, 1, 2) = "{}" THEN JObject(NoFields)
    ELSE IF SubSeq(raw, 1, 2) = "{\"" THEN JObject(ReadMembers(raw, 2, NoFields))
    ELSE JSyntax

\* the values of a handle type
HandleValues(T) ==
    [name : {"", OpName, "a\"b\\c"}, done : BOOLEAN, metadata : {"", "m"},
     response : IF "response" \in TypeFields(T) THEN {"", "r"} ELSE {""}]

HandleTypes == {"inworld.DeploymentResponse", "inworld.CheckDeploymentStatusResponse"}

\* a response body that is the JSON encoding of a handle
EncodedBodies ==
    {[raw |-> Marshal(T, h), json |-> Scan(Marshal(T, h))] :
       <<T, h>> \in UNION {{<<T, h>> : h \in HandleValues(T)} : T \in HandleTypes}}

\* the statuses of the responses that carry an encoded handle
RoundTripStatuses == {StatusOK, 304, StatusBadRequest - 1, StatusBadRequest}

\* the operations that return a handle, answered with encoded handles
NextRoundTrip ==
    \/ \E ctx \in Contexts, id \in SceneIDs : DeployScene(ctx, id)
    \/ \E ctx \in Contexts, id \in OperationIDs : CheckDeploymentStatus(ctx, id)
    \/ sendStudioAPIRequest
    \/ Do
    \/ \E status \in RoundTripStatuses : TransportRespond(status)
    \/ \E b \in EncodedBodies : ReadBody(b)
    \/ Classify
    \/ \E fails \in BOOLEAN : CloseBody(fails)
    \/ Return

SpecRoundTrip == Init /\ [][NextRoundTrip]_vars

---------------------------------------------------------------------------
(* C23 *)

\* C23: a call that returns a non-nil error returns the zero value of its
\* type; a CheckDeploymentStatus call that returns an error returns neither
\* done=true nor a name.
C23_ZeroValueOnError ==
    (pc = "returned" /\ err # Nil) => val = ZeroVal

---------------------------------------------------------------------------
(* C24 *)

\* the kind of the first failure the call's error carries
FirstKind == IF err = Nil THEN "none" ELSE Head(err).kind

\* the error is one failure of kind k, alone or joined with a close error
EndsIn(k) == err # Nil /\ Head(err).kind \in k /\ Tail(err) \in {Nil, CloseError}

\* every step of the dispatch succeeded: the send, the read of the whole
\* body, the status test, the decoding and the close
AllStepsSucceeded ==
    /\ resp.received
    /\ BodyWasRead
    /\ InSuccessRange(resp.status)
    /\ resp.body.json.t \in {"null", "object"}
    /\ \A k \in TypeFields(call.T) :
          resp.body.json.f[k].t \in
            {"absent", "null",
             CASE k = "name" -> "str" [] k = "done" -> "bool" [] OTHER -> "obj"}
    /\ closes = 1
    /\ closeErr = Nil

\* the five outcomes of the statement
FiveOutcomes ==
    <<err = Nil, EndsIn({"transport", "read"}), EndsIn({"structured"}),
      EndsIn({"generic"}), EndsIn({"decode"})>>

\* the close error alone: the body decoded and only closing it failed
EndsInCloseErrorAlone ==
    /\ err = CloseError
    /\ primary = Nil
    /\ BodyWasRead
    /\ InSuccessRange(resp.status)

\* C24 as stated: a dispatch returns a nil error exactly when every step
\* succeeded, and it ends in exactly one of success, transport/read error,
\* structured error, generic failure, decode error, the last four alone or
\* joined with a close error.
C24_FiveOutcomes ==
    (pc = "returned" /\ RequestSent) =>
       /\ (err = Nil <=> AllStepsSucceeded)
       /\ Cardinality({i \in 1..5 : FiveOutcomes[i]}) = 1

\* C24, amended: a dispatch returns a nil error exactly when every step
\* succeeded, and it ends in exactly one of success, transport/read error,
\* structured error, generic failure, decode error (the last four alone or
\* joined with a close error) or the close error alone after a body that
\* decoded.
C24_SixOutcomes ==
    (pc = "returned" /\ RequestSent) =>
       /\ (err = Nil <=> AllStepsSucceeded)
       /\ Cardinality({i \in 1..5 : FiveOutcomes[i]}
                      \cup (IF EndsInCloseErrorAlone THEN {6} ELSE {})) = 1

\* a check whose body decoded to a done handle returns the close error alone
C24_Witness ==
    /\ pc = "returned"
    /\ call.op = "CheckDeploymentStatus"
    /\ EndsInCloseErrorAlone
    /\ val.done

---------------------------------------------------------------------------
(* C25 *)

\* the steps of a call in their order: validation and request construction
\* (a failure of either returns at once), header injection, send (a
\* transport error returns at once), read of the whole body (a read error
\* goes straight to the close), classification and decoding, close, return
StepOrder ==
    {<<"idle", "returned">>, <<"idle", "built">>, <<"built", "do">>,
     <<"do", "waiting">>, <<"waiting", "returned">>, <<"waiting", "reading">>,
     <<"reading", "closing">>, <<"reading", "classify">>,
     <<"classify", "closing">>, <<"closing", "returned">>,
     <<"returned", "idle">>}

\* the request carries an Authorization header
Authorized == \E h \in req.headers : h[1] = "Authorization"

\* C25: within one call the steps happen in the order validation, request
\* construction, header injection, send, full body read, classification and
\* decoding, close.  A call whose validation or request construction failed
\* has no request; a built request has no header yet and has not been sent;
\* a request that is sent carries its headers, which no later step changes;
\* nothing is received before the send; once the body is closed the response
\* and the decoded value change no more; and a call that received a response
\* returns in the step that closes its body.
C25_FixedStepOrder ==
    /\ [](/\ (pc = "returned" /\ Kinds(err) \cap {"input", "request"} # {}) =>
                (req = NoReq /\ sends = 0 /\ closes = 0)
          /\ pc = "built" => (req # NoReq /\ req.headers = {} /\ sends = 0)
          /\ sends > 0 => Authorized
          /\ resp.received => sends > 0
          /\ closes > 0 => pc = "returned")
    /\ [][/\ pc' # pc => <<pc, pc'>> \in StepOrder
          /\ (sends > 0 /\ pc' # "idle") => req' = req
          /\ (closes > 0 /\ pc' # "idle") => (resp' = resp /\ val' = val)
          /\ (pc' = "returned" /\ pc # "returned" /\ resp.received) =>
                (pc = "closing" /\ closes' = closes + 1)
          /\ (pc' = "returned" /\ pc # "returned" /\ ~resp.received) =>
                closes' = 0]_vars

\* a check went through every step: its request was sent with its headers,
\* the body was read and decoded to a done handle, and the body was closed
C25_Witness ==
    /\ pc = "returned"
    /\ call.op = "CheckDeploymentStatus"
    /\ Authorized
    /\ sends = 1
    /\ BodyWasRead
    /\ val.done
    /\ closes = 1

---------------------------------------------------------------------------
(* C26 *)

\* the positions of the parameters that lack a name or a value
BadParameters(ps) == {i \in DOMAIN ps : ps[i].Name = "" \/ ps[i].Value = ""}

\* the message of the first check of SendTrigger that the arguments of c
\* fail, in the order session ID, session character, trigger, then the
\* parameters in list order, name before value; "" when they pass all
FirstFailingCheck(c) ==
    IF c.session = "" THEN "session id is required"
    ELSE IF c.id = "" THEN "session character is required"
    ELSE IF c.trigger = "" THEN "trigger is required"
    ELSE IF BadParameters(c.params) = {} THEN ""
    ELSE LET i == CHOOSE i \in BadParameters(c.params) :
                     \A j \in BadParameters(c.params) : i <= j
         IN IF c.params[i].Name = "" THEN "parameter name is required"
            ELSE "parameter value is required"

\* C26: a SendTrigger call (with a context) sends a request exactly when the
\* session ID, the session character and the trigger are non-empty and every
\* parameter has a name and a value; otherwise it returns, with no send and
\* no request built, the error of the first failing check in the order
\* session ID, session character, trigger, parameters in list order with the
\* name checked before the value.
C26_SendTriggerValidation ==
    (call.op = "SendTrigger" /\ call.ctx = "background") =>
       /\ sends > 0 => FirstFailingCheck(call) = ""
       /\ pc = "returned" =>
            IF FirstFailingCheck(call) = ""
            THEN sends = 1 /\ "input" \notin Kinds(err)
            ELSE /\ sends = 0
                 /\ req = NoReq
                 /\ Len(err) = 1
                 /\ err[1].kind = "input"
                 /\ err[1].msg = FirstFailingCheck(call)

\* a trigger whose first parameter lacks its value and whose second lacks
\* its name was rejected for the value, with nothing sent
C26_Witness ==
    /\ pc = "returned"
    /\ call.op = "SendTrigger"
    /\ call.ctx = "background"
    /\ call.params = <<[Name |-> "k", Value |-> ""], [Name |-> "", Value |-> "v"]>>
    /\ Len(err) = 1
    /\ err[1].msg = "parameter value is required"
    /\ sends = 0

---------------------------------------------------------------------------
(* C27 *)

DeleteOps == {"DeleteScene", "DeleteCharacter", "DeleteCommonKnowledge"}

\* the body is one JSON value that encoding/json stores into a struct{}:
\* an object, whatever its members, or null
DecodesIntoEmptyStruct(b) == b.json.t \in {"object", "null"}

\* C27: a delete call dispatches once and returns the error of that dispatch,
\* with no value: the error is nil exactly when the response has a status in
\* [200, 400), its body is a JSON value that decodes into an empty struct and
\* the close succeeded; a success-range response with an empty body gives a
\* decode error.
C27_DeleteReturnsDispatchError ==
    (call.op \in DeleteOps /\ pc = "returned" /\ RequestSent) =>
       /\ sends = 1
       /\ val = ZeroVal
       /\ err = Nil <=>
            /\ BodyWasRead
            /\ InSuccessRange(resp.status)
            /\ DecodesIntoEmptyStruct(resp.body)
            /\ closeErr = Nil
       /\ BodyWasRead =>
            err = combine(Outcome("struct {}", resp.status, resp.body).err, closeErr)
       /\ (BodyWasRead /\ InSuccessRange(resp.status) /\ resp.body.raw = "") =>
            /\ Head(err).kind = "decode"
            /\ Head(err).type = "struct {}"
            /\ Tail(err) = closeErr

\* a DeleteScene answered with status 200 and no body returned a decode error
C27_Witness ==
    /\ pc = "returned"
    /\ call.op = "DeleteScene"
    /\ resp.status = StatusOK
    /\ BodyWasRead
    /\ resp.body.raw = ""
    /\ Kinds(err) = {"decode"}

---------------------------------------------------------------------------
(* C28.  The methods of *Error, applied to Error values a caller may hold: *)
(* any code, any message, and details that are Go values of any type.      *)

MaxDetails == 2

\* a detail as a Go value: its dynamic type and its content.  structpb
\* converts strings and float64s (among others); it has no conversion for a
\* channel
GoValues ==
    {[type |-> "string", s |-> "d1", n |-> 0],
     [type |-> "float64", s |-> "", n |-> 7],
     [type |-> "chan int", s |-> "", n |-> 0]}

\* the Error values under test
ErrorValues ==
    [Code : {CodeOK, 3, 5, MaxCode - 1},
     Message : {"", "no scene", "invalid argument"},
     Details : UNION {[1..n -> GoValues] : n \in 0..MaxDetails}]

\* func (e *Error) Error() string
Error(e) == e.Message

GRPCStatusPartialDetails(e) ==
    LET s == [code |-> e.Code, message |-> e.Message, details |-> <<>>]
        ok == SelectSeq(e.Details, LAMBDA d : d.type \in {"string", "float64"})
    IN IF Len(e.Details) = 0 \/ e.Code = CodeOK THEN s
       ELSE [s EXCEPT !.details =
               [i \in DOMAIN ok |->
                  IF ok[i].type = "string"
                  THEN [kind |-> "string_value", s |-> ok[i].s, n |-> 0]
                  ELSE [kind |-> "number_value", s |-> "", n |-> ok[i].n]]]

\* func (e *Error) GRPCStatus() *status.Status
GRPCStatus(e) ==
    LET \* status.New(e.Code, e.Message)
        s == [code |-> e.Code, message |-> e.Message, details |-> <<>>]
        \* structpb.NewList(e.Details): an error when a value has no conversion
        converts == \A i \in DOMAIN e.Details :
                       e.Details[i].type \in {"string", "float64"}
        details == [i \in DOMAIN e.Details |->
                      IF e.Details[i].type = "string"
                      THEN [kind |-> "string_value", s |-> e.Details[i].s, n |-> 0]
                      ELSE [kind |-> "number_value", s |-> "", n |-> e.Details[i].n]]
        \* s.WithDetails(d...): an error for a status with code OK
        attaches == s.code # CodeOK
    IN IF Len(e.Details) = 0 THEN s
       ELSE IF ~converts THEN s
       ELSE IF ~attaches THEN s
       ELSE [s EXCEPT !.details = details]

\* a caller calls e.Error()
CallError ==
    /\ "Error" \notin probe.called
    /\ probe' = [probe EXCEPT !.called = @ \cup {"Error"}, !.text = Error(probe.e)]
    /\ UNCHANGED <<calls, reader, reads>>

\* a caller calls e.GRPCStatus()
CallGRPCStatus ==
    /\ "GRPCStatus" \notin probe.called
    /\ probe' = [probe EXCEPT !.called = @ \cup {"GRPCStatus"},
                              !.status = GRPCStatus(probe.e)]
    /\ UNCHANGED <<calls, reader, reads>>

InitErrorMethods ==
    /\ InitCalls
    /\ probe \in {[NoProbe EXCEPT !.e = e] : e \in ErrorValues}
    /\ reader = NoReader
    /\ reads = NoReads

NextErrorMethods == CallError \/ CallGRPCStatus

SpecErrorMethods == InitErrorMethods /\ [][NextErrorMethods]_vars

\* every detail of the list is a value that structpb converts
EveryDetailConverts(e) ==
    \A i \in DOMAIN e.Details : e.Details[i].type # "chan int"

\* C28: e.Error() is e's message; e.GRPCStatus() has e's code and e's
\* message whatever the details are; it carries one detail per element of
\* e's list when the list is non-empty, every element converts and the
\* status takes details (its code is not OK), and no detail at all otherwise.
C28_ErrorMethods ==
    /\ "Error" \in probe.called => probe.text = probe.e.Message
    /\ "GRPCStatus" \in probe.called =>
         /\ probe.status.code = probe.e.Code
         /\ probe.status.message = probe.e.Message
         /\ IF Len(probe.e.Details) > 0 /\ EveryDetailConverts(probe.e)
               /\ probe.e.Code # CodeOK
            THEN /\ Len(probe.status.details) = Len(probe.e.Details)
                 /\ \A i \in DOMAIN probe.e.Details :
                       \/ /\ probe.e.Details[i].type = "string"
                          /\ probe.status.details[i].kind = "string_value"
                          /\ probe.status.details[i].s = probe.e.Details[i].s
                       \/ /\ probe.e.Details[i].type = "float64"
                          /\ probe.status.details[i].kind = "number_value"
                          /\ probe.status.details[i].n = probe.e.Details[i].n
            ELSE probe.status.details = <<>>

\* both methods were called on an error whose first detail converts and
\* whose second does not: the status has the code and the message and no
\* details
C28_Witness ==
    /\ probe.called = {"Error", "GRPCStatus"}
    /\ probe.e.Code = 3
    /\ probe.e.Message = "invalid argument"
    /\ Len(probe.e.Details) = 2
    /\ probe.e.Details[1].type = "string"
    /\ probe.e.Details[2].type = "chan int"
    /\ probe.text = "invalid argument"
    /\ probe.status = [code |-> 3, message |-> "invalid argument", details |-> <<>>]

---------------------------------------------------------------------------
(* C29.  The request-body reader, read with buffers of several sizes.      *)

MaxReads == 6

\* the values given to newReader: SendTextRequests, of which json encodes
\* the text only (SessionID and SessionCharacter are tagged json:"-"), and
\* a channel, which json cannot encode
ReaderValues ==
    {[type |-> "inworld.SendTextRequest", text |-> t] :
        t \in {"", "hello", "say \"hi\""}}
    \cup {[type |-> "chan int", text |-> ""]}

\* len(p) of the buffers handed to Read
ReadSizes == {1, 4, 512}

\* json.NewEncoder(r.buf).Encode(r.v): the JSON text of the value followed
\* by a newline, or an error and nothing written
Encoded(v) ==
    IF v.type = "inworld.SendTextRequest"
    THEN [ok |-> TRUE, text |-> "{\"text\":" \o Quote(v.text) \o "}\n"]
    ELSE [ok |-> FALSE, text |-> ""]

\* func newReader(v any) *jsonReader
newReader(v) == [v |-> v, buf |-> NilBuffer]

ReadEncodingEveryTime(r, size) ==
    LET e == Encoded(r.v)
        b == r.buf.bytes \o e.text
        k == IF size < Len(b) THEN size ELSE Len(b)
    IN IF ~e.ok
       THEN [r |-> [r EXCEPT !.buf = [nil |-> FALSE, bytes |-> ""]],
             n |-> 0, bytes |-> "", err |-> "marshaling", encoded |-> TRUE]
       ELSE [r |-> [r EXCEPT !.buf = [nil |-> FALSE, bytes |-> SubSeq(b, k + 1, Len(b))]],
             n |-> k, bytes |-> SubSeq(b, 1, k), err |-> "nil", encoded |-> TRUE]

\* func (r *jsonReader) Read(p []byte) (n int, err error) with len(p) = size:
\* the reader afterwards, n, the bytes put into p, err, and whether the
\* value was encoded in this call
Read(r, size) ==
    LET e == Encoded(r.v)
        \* r.buf after the if statement
        b == IF r.buf.nil THEN e.text ELSE r.buf.bytes
        k == IF size < Len(b) THEN size ELSE Len(b)
    IN IF r.buf.nil /\ ~e.ok
       THEN [r |-> [r EXCEPT !.buf = [nil |-> FALSE, bytes |-> ""]],
             n |-> 0, bytes |-> "", err |-> "marshaling", encoded |-> TRUE]
       \* r.buf.Read(p): io.EOF from an empty buffer unless len(p) is 0
       ELSE IF b = ""
       THEN [r |-> [r EXCEPT !.buf = [nil |-> FALSE, bytes |-> ""]],
             n |-> 0, bytes |-> "", err |-> IF size = 0 THEN "nil" ELSE "EOF",
             encoded |-> r.buf.nil]
       ELSE [r |-> [r EXCEPT !.buf = [nil |-> FALSE, bytes |-> SubSeq(b, k + 1, Len(b))]],
             n |-> k, bytes |-> SubSeq(b, 1, k), err |-> "nil",
             encoded |-> r.buf.nil]

\* the transport reads the request body into a buffer of this size
CallRead(size) ==
    /\ reads.count < MaxReads
    /\ LET o == Read(reader, size)
       IN /\ reader' = o.r
          /\ reads' = [count |-> reads.count + 1,
                       stream |-> reads.stream \o o.bytes,
                       encodes |-> reads.encodes + (IF o.encoded THEN 1 ELSE 0),
                       n |-> o.n,
                       err |-> o.err,
                       ended |-> reads.ended \/ o.err # "nil"]
    /\ UNCHANGED <<calls, probe>>

InitReader ==
    /\ InitCalls
    /\ probe = NoProbe
    /\ reader \in {newReader(v) : v \in ReaderValues}
    /\ reads = NoReads

NextReader == \E size \in ReadSizes : CallRead(size)

SpecReader == InitReader /\ [][NextReader]_vars

\* what json writes for the reader's value: the JSON text and the newline
\* that json.Encoder ends it with, nothing for a value it cannot encode
EncodingOf(v) ==
    IF v.type = "chan int" THEN ""
    ELSE "{\"text\":\"" \o (IF v.text = "say \"hi\"" THEN "say \\\"hi\\\"" ELSE v.text)
         \o "\"}\n"

====
